---- MODULE Spec2Model ----
(***************************************************************************)
(* Verification model of the hermez-node coordinator core.                 *)
(*                                                                         *)
(* Part I models the Synchronizer (synchronizer.Sync, reorg, Status)       *)
(* together with the stores and the chain client it drives.                *)
(* Part II models the coordinator loop, Part III the transaction selector, *)
(* Part IV the batch builders and their local state DBs, Part V the API    *)
(* reads of the history store, Part VI the rollup contract client.         *)
(***************************************************************************)
EXTENDS Integers, Sequences, FiniteSets, TLC

\* ------------------------------------------------------------------ bounds
MinHead == 21           \* lowest chain head of an initial state
MaxHead == 22           \* the chain stops growing at this head
MaxForks == 1           \* chain reorganisations in one behaviour
MaxBatch == 2           \* batches a pre-populated history store holds
MaxItems == 3           \* rows a table of the history store gets
MaxLimit == 2           \* highest limit of a paginated query
MaxAPIConns == 1        \* permits of apiConnCon
MaxLogs == 3            \* logs the node returns for a block
MaxLocalBatch == 1      \* batches a builder builds ahead of the synchronized state

\* ------------------------------------------------------- program constants
blocksToSync == 20

Threads == {1, 2}

ErrNotAbleToSync == "ErrNotAbleToSync"
ErrEth == "ErrEth"              \* any error of an ethClient call
ErrDB == "ErrDB"                \* any error of a historyDB / stateDB call
ErrRollupSync == "ErrRollupSync"
ErrAuctionSync == "ErrAuctionSync"
Panic == "panic"                \* nil pointer dereference
NoErr == "nil"
Running == "-"                  \* the call has not returned yet

\* nil *common.Block
NilBlock == [EthBlockNum |-> -1, Hash |-> <<>>]

VARIABLES
    chain,              \* chain[n]: branch on which block n was mined; Len = head
    nforks,             \* reorganisations of the chain so far
    hdbBlocks,          \* historyDB table block: set of common.Block
    hdbBatches,         \* historyDB table batch: set of [BatchNum, EthBlockNum]
    sdbBatch,           \* stateDB current batch
    sdbCheckpoints,     \* stateDB checkpoints (batch numbers)
    mux,                \* Synchronizer.mux: 0 when free, else the holder
    firstSavedBlock,    \* Synchronizer.firstSavedBlock
    pc,                 \* per caller: position in Sync / Status
    sv,                 \* per caller: local variables of Sync and reorg
    ret,                \* per caller: value returned by the call
    obs                 \* per caller: what the call has seen (history variable)

syncVars == <<chain, nforks, hdbBlocks, hdbBatches, sdbBatch, sdbCheckpoints,
              mux, firstSavedBlock, pc, sv, ret, obs>>

\* coordinator loop
VARIABLES
    coState,            \* state of the loop
    coBatch,            \* number of the batch the loop is forging
    coMarked,           \* the local fork and the pool carry marks of coBatch
    coSubs,             \* forge transactions submitted: [BatchNum, Status]
    coFails             \* stages failed so far

coVars == <<coState, coBatch, coMarked, coSubs, coFails>>

\* transaction selector
VARIABLES
    selAccounts,        \* localAccountsDB: accounts, the i-th has Idx 255 + i
    selBatch,           \* localAccountsDB.CurrentBatch
    pool,               \* l2db: pool txs, [Tx, State, BatchNum]
    auths,              \* l2db: owners of the stored AccountCreationAuths
    selOut              \* what the last GetL1L2TxSelection returned

selVars == <<selAccounts, selBatch, pool, auths, selOut>>

\* batch builders
VARIABLES
    bb,                 \* per builder: its localStateDB [batch, accounts, cps]
    bbFed               \* per builder: the checkpoint it was reset to and the
                        \* tx lists built since (history variable)

bbVars == <<bb, bbFed>>

\* API reads of the history store
VARIABLES
    hItems,             \* item_id of the rows of a table that match a filter
    hNext,              \* item_id the next row of the table gets
    resp,               \* what the last paginated query returned
    read,               \* a client reading a filter page by page
    apiHeld,            \* apiConnCon: permits held
    rd                  \* per API call in progress: position and permits

apiVars == <<hItems, hNext, resp, read, apiHeld, rd>>

\* rollup contract client
VARIABLES
    ev                  \* the last RollupEventsByBlock call: the block being
                        \* synced, the logs the node returned, what the call
                        \* returned

evVars == <<ev>>

\* transactions and their codecs
VARIABLES
    cx                  \* the last call of a constructor or codec: its name,
                        \* its input and what it returned

cxVars == <<cx>>

\* pool of provers
VARIABLES
    pp                  \* ProversPool.pool, the provers each holder has, the
                        \* provers not added yet, the context, the last call

ppVars == <<pp>>

vars == <<syncVars, coVars, selVars, bbVars, apiVars, evVars, cxVars, ppVars>>

\* each component owns its variables: a step of one leaves the others' alone
coSelVars == <<coVars, selVars, bbVars, apiVars, evVars, cxVars, ppVars>>

syncSelVars == <<syncVars, selVars, bbVars, apiVars, evVars, cxVars, ppVars>>

syncCoVars == <<syncVars, coVars, bbVars, apiVars, evVars, cxVars, ppVars>>

\* ------------------------------------------------------------ chain client
ChainHead == Len(chain)

\* a block hash identifies the block: its height and the branch it was mined on
BlockOf(n) == [EthBlockNum |-> n, Hash |-> <<n, chain[n]>>]

\* eth.Client.EthBlockByNumber: number 0 asks for the latest block
EthBlockByNumber(n) == IF n = 0 THEN BlockOf(ChainHead) ELSE BlockOf(n)

EthBlockExists(n) == n >= 0 /\ n <= ChainHead

\* eth.Client.EthCurrentBlock
EthCurrentBlock == ChainHead

\* ------------------------------------------------------------ history store
Max(S) == CHOOSE x \in S : \A y \in S : y <= x

BlockNums(blocks) == {b.EthBlockNum : b \in blocks}

\* HistoryDB.GetLastBlock: the block with the highest number, nil on no rows
GetLastBlock(blocks) ==
    IF blocks = {} THEN NilBlock
    ELSE CHOOSE b \in blocks : \A c \in blocks : c.EthBlockNum <= b.EthBlockNum

HasBlock(blocks, n) == \E b \in blocks : b.EthBlockNum = n

\* HistoryDB.GetBlock
GetBlock(blocks, n) == CHOOSE b \in blocks : b.EthBlockNum = n

\* HistoryDB.AddBlock
AddBlock(blocks, b) == blocks \cup {b}

\* HistoryDB.Reorg: deletes every row with eth_block_num > fromBlockNum
ReorgBlocks(blocks, n) == {b \in blocks : b.EthBlockNum <= n}

ReorgBatches(batches, n) == {b \in batches : b.EthBlockNum <= n}

\* HistoryDB.GetLastBatchNum: 0 (sql.ErrNoRows) when there is no batch
GetLastBatchNum(batches) ==
    IF batches = {} THEN 0 ELSE Max({b.BatchNum : b \in batches})

\* -------------------------------------------------------------- state DB
\* the later checkpoints are kept
ResetCheckpoints_KeepAll(cps, n) == cps

\* StateDB.Reset(batchNum): current batch N, checkpoints > N discarded
ResetCheckpoints(cps, n) == {c \in cps : c <= n}

\* --------------------------------------------------------- the environment
\* depths, counted from the head, at which the chain may reorganise
ForkDepths == {1, blocksToSync - 1, blocksToSync}

Touch(o) == [o EXCEPT !.moved = TRUE]

\* every call in progress has now seen the chain change under it
ChainMoved == obs' = [t \in Threads |-> IF pc[t] = "idle" THEN obs[t] ELSE Touch(obs[t])]

\* the chain is taken to stand still while a call walks back over the
\* history (reorg) or appends blocks to it (the loop of Sync)
ChainQuiet == \A t \in Threads : pc[t] \notin {"r_loop", "s_loop"}

\* a result is handed to its caller (Finish) before the next call or chain
\* event is considered: the hand-over is local and commutes with both
Settled == \A t \in Threads : pc[t] # "done"

\* a new block is mined on top of the chain
ChainGrow ==
    /\ ChainHead < MaxHead
    /\ ChainQuiet
    /\ Settled
    /\ chain' = Append(chain, nforks + 1)
    /\ ChainMoved
    /\ UNCHANGED <<nforks, hdbBlocks, hdbBatches, sdbBatch, sdbCheckpoints,
                   mux, firstSavedBlock, pc, sv, ret>>
    /\ UNCHANGED coSelVars

\* the chain reorganises: every block above f is replaced by a new one
ChainFork ==
    /\ nforks < MaxForks
    /\ ChainQuiet
    /\ Settled
    /\ \E d \in ForkDepths :
         LET f == ChainHead - d IN
         /\ f >= 0
         /\ chain' = [n \in 1..ChainHead |-> IF n > f THEN nforks + 2 ELSE chain[n]]
    /\ nforks' = nforks + 1
    /\ ChainMoved
    /\ UNCHANGED <<hdbBlocks, hdbBatches, sdbBatch, sdbCheckpoints,
                   mux, firstSavedBlock, pc, sv, ret>>
    /\ UNCHANGED coSelVars

\* ------------------------------------------------------------ Synchronizer
NoLocals == [latestBlock |-> 0, lastSavedBlock |-> NilBlock, latestBlockNum |-> 0,
             blockNum |-> 0, found |-> FALSE, block |-> NilBlock]

NoObs == [op |-> "-", cold |-> FALSE, moved |-> FALSE]

\* s.mux.Lock()
Lock(t) == t

\* a return path on which the mutex is not released
Unlock_Missing(t) == mux

\* defer s.mux.Unlock()
Unlock(t) == 0

\* a return statement: the result is set and the deferred Unlock runs
Return(t, r) ==
    /\ pc' = [pc EXCEPT ![t] = "done"]
    /\ ret' = [ret EXCEPT ![t] = r]
    /\ mux' = Unlock(t)

Goto(t, label) ==
    /\ pc' = [pc EXCEPT ![t] = label]
    /\ UNCHANGED <<ret, mux>>

\* rollupSync and auctionSync are placeholders ("To be implemented"); Sync
\* handles their error result, which is left open here
rollupSync == {NoErr, ErrRollupSync}

auctionSync == {NoErr, ErrAuctionSync}

\* Sync, lines 79-82
SyncCall(t) ==
    /\ pc[t] = "idle"
    /\ Settled
    /\ mux = 0
    /\ mux' = Lock(t)
    /\ pc' = [pc EXCEPT ![t] = "s_latest"]
    /\ obs' = [obs EXCEPT ![t] = [NoObs EXCEPT !.op = "Sync"]]
    /\ UNCHANGED <<chain, nforks, hdbBlocks, hdbBatches, sdbBatch, sdbCheckpoints,
                   firstSavedBlock, sv, ret>>
    /\ UNCHANGED coSelVars

\* Sync, lines 88-91
SyncLatest(t) ==
    /\ pc[t] = "s_latest"
    /\ \/ Return(t, ErrEth) /\ UNCHANGED sv
       \/ /\ sv' = [sv EXCEPT ![t].latestBlock = EthBlockByNumber(0).EthBlockNum]
          /\ Goto(t, "s_first")
    /\ UNCHANGED <<chain, nforks, hdbBlocks, hdbBatches, sdbBatch, sdbCheckpoints,
                   firstSavedBlock, obs>>
    /\ UNCHANGED coSelVars

\* Sync, lines 92-95
SyncFirst(t) ==
    /\ pc[t] = "s_first"
    /\ LET n == sv[t].latestBlock - blocksToSync IN
       \/ Return(t, ErrEth) /\ UNCHANGED firstSavedBlock
       \/ /\ EthBlockExists(n)
          /\ firstSavedBlock' = EthBlockByNumber(n)
          /\ Goto(t, "s_last")
    /\ UNCHANGED <<chain, nforks, hdbBlocks, hdbBatches, sdbBatch, sdbCheckpoints,
                   sv, obs>>
    /\ UNCHANGED coSelVars

\* Sync, lines 98-127 up to the call of reorg
SyncLast(t) ==
    /\ pc[t] = "s_last"
    /\ LET lastSavedBlock == GetLastBlock(hdbBlocks) IN
       \/ Return(t, ErrDB) /\ UNCHANGED <<sv, obs>>
       \/ /\ lastSavedBlock = NilBlock \/ lastSavedBlock.EthBlockNum = 0
          /\ sv' = [sv EXCEPT ![t].lastSavedBlock = firstSavedBlock]
          /\ obs' = [obs EXCEPT ![t].cold = TRUE]
          /\ Goto(t, "s_cur")
       \/ /\ ~(lastSavedBlock = NilBlock \/ lastSavedBlock.EthBlockNum = 0)
          /\ \/ Return(t, ErrEth) /\ UNCHANGED <<sv, obs>>
             \/ /\ EthBlockByNumber(lastSavedBlock.EthBlockNum).Hash # lastSavedBlock.Hash
                /\ sv' = [sv EXCEPT ![t].lastSavedBlock = lastSavedBlock,
                                     ![t].blockNum = lastSavedBlock.EthBlockNum,
                                     ![t].found = FALSE,
                                     ![t].block = NilBlock]
                /\ Goto(t, "r_loop")
                /\ UNCHANGED obs
             \/ /\ EthBlockByNumber(lastSavedBlock.EthBlockNum).Hash = lastSavedBlock.Hash
                /\ sv' = [sv EXCEPT ![t].lastSavedBlock = lastSavedBlock]
                /\ Goto(t, "s_cur")
                /\ UNCHANGED obs
    /\ UNCHANGED <<chain, nforks, hdbBlocks, hdbBatches, sdbBatch, sdbCheckpoints,
                   firstSavedBlock>>
    /\ UNCHANGED coSelVars

\* reorg, line 182: the condition of the walk
ReorgWalks(t) ==
    ~sv[t].found /\ sv[t].blockNum > firstSavedBlock.EthBlockNum

\* reorg, lines 182-200: one iteration of the walk
ReorgLoop(t) ==
    /\ pc[t] = "r_loop"
    /\ ReorgWalks(t)
    /\ LET blockNum == sv[t].blockNum IN
       \/ Return(t, ErrEth) /\ UNCHANGED sv
       \/ Return(t, ErrDB) /\ UNCHANGED sv
       \/ /\ HasBlock(hdbBlocks, blockNum)
          /\ LET ethBlock == EthBlockByNumber(blockNum)
                 block == GetBlock(hdbBlocks, blockNum)
             IN sv' = [sv EXCEPT ![t].block = block,
                                 ![t].found = (block.Hash = ethBlock.Hash),
                                 ![t].blockNum = blockNum - 1]
          /\ Goto(t, "r_loop")
    /\ UNCHANGED <<chain, nforks, hdbBlocks, hdbBatches, sdbBatch, sdbCheckpoints,
                   firstSavedBlock, obs>>
    /\ UNCHANGED coSelVars

\* truncating to the walk's counter, already decremented past the match
ReorgTarget_Decremented(t) == sv[t].blockNum

\* reorg, line 204: the height the history is truncated to
ReorgTarget(t) == sv[t].block.EthBlockNum

\* reorg, line 213: the state DB is reset only to a batch other than 0
ResetsStateDB(batchNum) == batchNum # 0

\* reorg, lines 202-223
ReorgApply(t) ==
    /\ pc[t] = "r_loop"
    /\ ~ReorgWalks(t)
    /\ IF sv[t].found
       THEN LET blocks == ReorgBlocks(hdbBlocks, ReorgTarget(t))
                batches == ReorgBatches(hdbBatches, ReorgTarget(t))
                batchNum == GetLastBatchNum(batches)
            IN \/ /\ Return(t, ErrDB)
                  /\ UNCHANGED <<hdbBlocks, hdbBatches, sdbBatch, sdbCheckpoints>>
               \/ /\ hdbBlocks' = blocks
                  /\ hdbBatches' = batches
                  /\ Return(t, ErrDB)
                  /\ UNCHANGED <<sdbBatch, sdbCheckpoints>>
               \/ /\ hdbBlocks' = blocks
                  /\ hdbBatches' = batches
                  /\ IF ResetsStateDB(batchNum)
                     THEN /\ sdbBatch' = batchNum
                          /\ sdbCheckpoints' = ResetCheckpoints(sdbCheckpoints, batchNum)
                     ELSE UNCHANGED <<sdbBatch, sdbCheckpoints>>
                  /\ Goto(t, "s_afterReorg")
       ELSE /\ Return(t, ErrNotAbleToSync)
            /\ UNCHANGED <<hdbBlocks, hdbBatches, sdbBatch, sdbCheckpoints>>
    /\ UNCHANGED <<chain, nforks, firstSavedBlock, sv, obs>>
    /\ UNCHANGED coSelVars

\* Sync, lines 122-125
SyncAfterReorg(t) ==
    /\ pc[t] = "s_afterReorg"
    /\ \/ Return(t, ErrDB) /\ UNCHANGED sv
       \/ /\ hdbBlocks # {}
          /\ sv' = [sv EXCEPT ![t].lastSavedBlock = GetLastBlock(hdbBlocks)]
          /\ Goto(t, "s_cur")
    /\ UNCHANGED <<chain, nforks, hdbBlocks, hdbBatches, sdbBatch, sdbCheckpoints,
                   firstSavedBlock, obs>>
    /\ UNCHANGED coSelVars

\* Sync, lines 132-135
SyncCurrent(t) ==
    /\ pc[t] = "s_cur"
    /\ \/ Return(t, ErrEth) /\ UNCHANGED sv
       \/ /\ sv' = [sv EXCEPT ![t].latestBlockNum = EthCurrentBlock]
          /\ Goto(t, "s_loop")
    /\ UNCHANGED <<chain, nforks, hdbBlocks, hdbBatches, sdbBatch, sdbCheckpoints,
                   firstSavedBlock, obs>>
    /\ UNCHANGED coSelVars

\* Sync, line 139: the condition of the loop
SyncLoops(t) == sv[t].lastSavedBlock.EthBlockNum < sv[t].latestBlockNum

\* a loop that steps over a block
NextBlockNum_Skip(t) == sv[t].lastSavedBlock.EthBlockNum + 2

\* Sync, line 140: the block synchronized next
NextBlockNum(t) == sv[t].lastSavedBlock.EthBlockNum + 1

\* AddBlock placed before the call of auctionSync
WritesBlock_BeforeAuction(re, ae) == re = NoErr

\* Sync, lines 146-158: AddBlock is reached only past both error checks
WritesBlock(re, ae) == re = NoErr /\ ae = NoErr

\* Sync, lines 147-155: the error the iteration returns before AddBlock
FetchError(re, ae) == IF re # NoErr THEN re ELSE ae

\* Sync, lines 139-168: one iteration
SyncLoop(t) ==
    /\ pc[t] = "s_loop"
    /\ SyncLoops(t)
    /\ \/ Return(t, ErrEth) /\ UNCHANGED <<sv, hdbBlocks>>
       \/ /\ EthBlockExists(NextBlockNum(t))
          /\ \E re \in rollupSync, ae \in auctionSync :
               LET ethBlock == EthBlockByNumber(NextBlockNum(t))
                   blocks == IF WritesBlock(re, ae)
                             THEN AddBlock(hdbBlocks, ethBlock) ELSE hdbBlocks
               IN \/ /\ FetchError(re, ae) # NoErr
                     /\ hdbBlocks' = blocks
                     /\ Return(t, FetchError(re, ae))
                     /\ UNCHANGED sv
                  \/ /\ FetchError(re, ae) = NoErr
                     /\ \/ Return(t, ErrDB) /\ UNCHANGED <<sv, hdbBlocks>>
                        \/ /\ hdbBlocks' = blocks
                           /\ \/ Return(t, ErrDB) /\ UNCHANGED sv
                              \/ /\ sv' = [sv EXCEPT ![t].lastSavedBlock =
                                                        GetLastBlock(hdbBlocks')]
                                 /\ Goto(t, "s_loop")
    /\ UNCHANGED <<chain, nforks, hdbBatches, sdbBatch, sdbCheckpoints,
                   firstSavedBlock, obs>>
    /\ UNCHANGED coSelVars

\* Sync, line 170
SyncReturn(t) ==
    /\ pc[t] = "s_loop"
    /\ ~SyncLoops(t)
    /\ Return(t, NoErr)
    /\ UNCHANGED <<chain, nforks, hdbBlocks, hdbBatches, sdbBatch, sdbCheckpoints,
                   firstSavedBlock, sv, obs>>
    /\ UNCHANGED coSelVars

\* Status, lines 227-230
StatusCall(t) ==
    /\ pc[t] = "idle"
    /\ Settled
    /\ mux = 0
    /\ mux' = Lock(t)
    /\ pc' = [pc EXCEPT ![t] = "st_last"]
    /\ obs' = [obs EXCEPT ![t] = [NoObs EXCEPT !.op = "Status"]]
    /\ UNCHANGED <<chain, nforks, hdbBlocks, hdbBatches, sdbBatch, sdbCheckpoints,
                   firstSavedBlock, sv, ret>>
    /\ UNCHANGED coSelVars

\* Status, lines 232-239: status is a nil *Status, so the assignment of
\* line 239 panics; the deferred Unlock runs while the panic unwinds
StatusLast(t) ==
    /\ pc[t] = "st_last"
    /\ \/ Return(t, ErrDB)
       \/ hdbBlocks # {} /\ Return(t, Panic)
    /\ UNCHANGED <<chain, nforks, hdbBlocks, hdbBatches, sdbBatch, sdbCheckpoints,
                   firstSavedBlock, sv, obs>>
    /\ UNCHANGED coSelVars

\* the caller takes the result; the frame of the call is gone
Finish(t) ==
    /\ pc[t] = "done"
    /\ pc' = [pc EXCEPT ![t] = "idle"]
    /\ ret' = [ret EXCEPT ![t] = Running]
    /\ sv' = [sv EXCEPT ![t] = NoLocals]
    /\ obs' = [obs EXCEPT ![t] = NoObs]
    /\ UNCHANGED <<chain, nforks, hdbBlocks, hdbBatches, sdbBatch, sdbCheckpoints,
                   mux, firstSavedBlock>>
    /\ UNCHANGED coSelVars

\* ------------------------------------------------------------ initial state
\* NewSynchronizer is handed the stores as they are on disk: empty, or holding
\* blocks 1..head of the chain and nb batches forged in its last nb blocks,
\* with the state DB at batch nb
InitStores(nb) ==
    /\ hdbBlocks = IF nb = 0 THEN {} ELSE {BlockOf(n) : n \in 1..ChainHead}
    /\ hdbBatches = {[BatchNum |-> k, EthBlockNum |-> ChainHead - nb + k] : k \in 1..nb}
    /\ sdbBatch = nb
    /\ sdbCheckpoints = 1..nb

SyncInitAt(head) ==
    /\ chain = [n \in 1..head |-> 1]
    /\ nforks = 0
    /\ \E nb \in 0..MaxBatch : InitStores(nb)
    /\ mux = 0
    /\ firstSavedBlock = NilBlock
    /\ pc = [t \in Threads |-> "idle"]
    /\ sv = [t \in Threads |-> NoLocals]
    /\ ret = [t \in Threads |-> Running]
    /\ obs = [t \in Threads |-> NoObs]

SyncInit == SyncInitAt(MinHead)

\* the steps of a call of Sync that has taken the mutex
SyncSteps(t) ==
    \/ SyncLatest(t)
    \/ SyncFirst(t)
    \/ SyncLast(t)
    \/ ReorgLoop(t)
    \/ ReorgApply(t)
    \/ SyncAfterReorg(t)
    \/ SyncCurrent(t)
    \/ SyncLoop(t)
    \/ SyncReturn(t)

SyncNext ==
    \/ ChainGrow
    \/ ChainFork
    \/ \E t \in Threads :
         \/ SyncCall(t)
         \/ SyncLatest(t)
         \/ SyncFirst(t)
         \/ SyncLast(t)
         \/ ReorgLoop(t)
         \/ ReorgApply(t)
         \/ SyncAfterReorg(t)
         \/ SyncCurrent(t)
         \/ SyncLoop(t)
         \/ SyncReturn(t)
         \/ StatusCall(t)
         \/ StatusLast(t)
         \/ Finish(t)


\* ================================================== claims: Synchronizer
InBody(t) == pc[t] \notin {"idle", "done"}

\* blocks of the history whose stored hash is the chain's hash at that height
Common(blocks) ==
    {b \in blocks : EthBlockExists(b.EthBlockNum)
                    /\ b.Hash = EthBlockByNumber(b.EthBlockNum).Hash}

ReorgSucceeds(t) == pc[t] = "r_loop" /\ pc'[t] = "s_afterReorg"

\* C1: a successful reorg truncates the history exactly to the highest block
\* whose stored hash equals the chain's hash at its height: every higher block
\* is gone, no block at or below it is removed, and GetLastBlock returns it.
C1_ReorgTruncatesToAncestor ==
    [][\A t \in Threads : ReorgSucceeds(t) =>
         /\ Common(hdbBlocks) # {}
         /\ LET anc == GetLastBlock(Common(hdbBlocks)) IN
            /\ hdbBlocks' = {b \in hdbBlocks : b.EthBlockNum <= anc.EthBlockNum}
            /\ GetLastBlock(hdbBlocks') = anc]_syncVars

\* a reorg has just dropped at least two blocks of the history
C1_Witness ==
    \E t \in Threads :
      /\ pc[t] = "s_afterReorg"
      /\ hdbBlocks # {}
      /\ GetLastBlock(hdbBlocks).EthBlockNum + 2 <= sv[t].lastSavedBlock.EthBlockNum

\* C2: after a successful reorg the state DB's current batch is the last batch
\* number left in the history, and with no batch left the state DB is back at
\* the empty pre-batch state.
C2_StateDBFollowsHistory ==
    \A t \in Threads : pc[t] = "s_afterReorg" =>
      /\ sdbBatch = GetLastBatchNum(hdbBatches)
      /\ sdbCheckpoints = 1..GetLastBatchNum(hdbBatches)

\* the saved window of C3: firstSavedBlock up to and including the uncle block
InWindow(t, n) ==
    firstSavedBlock.EthBlockNum <= n /\ n <= sv[t].lastSavedBlock.EthBlockNum

\* the blocks reorg compares: above firstSavedBlock, up to the uncle block
InWalk(t, n) ==
    firstSavedBlock.EthBlockNum < n /\ n <= sv[t].lastSavedBlock.EthBlockNum

WalkEnds(t) == pc[t] = "r_loop" /\ ~ReorgWalks(t) /\ pc'[t] # "r_loop"

\* C3: reorg fails with ErrNotAbleToSync exactly when no block number in the
\* saved window (firstSavedBlock up to and including the last saved block) has
\* a stored hash equal to the chain's hash; both stores are then unchanged.
C3_NotAbleToSyncIffNoAncestor ==
    [][\A t \in Threads : WalkEnds(t) =>
         /\ (ret'[t] = ErrNotAbleToSync) <=>
              ~(\E b \in Common(hdbBlocks) : InWindow(t, b.EthBlockNum))
         /\ (ret'[t] = ErrNotAbleToSync) =>
              UNCHANGED <<hdbBlocks, hdbBatches, sdbBatch, sdbCheckpoints>>]_syncVars

\* what the code does: the block numbered firstSavedBlock is never compared
C3_NotAbleToSyncIffNoAncestorAbove ==
    [][\A t \in Threads : WalkEnds(t) =>
         /\ (ret'[t] = ErrNotAbleToSync) <=>
              ~(\E b \in Common(hdbBlocks) : InWalk(t, b.EthBlockNum))
         /\ (ret'[t] = ErrNotAbleToSync) =>
              UNCHANGED <<hdbBlocks, hdbBatches, sdbBatch, sdbCheckpoints>>]_syncVars

Contiguous(S) == \A n \in S : n + 1 \in S \/ \A m \in S : m <= n

C4_Appends ==
    hdbBlocks' = hdbBlocks \/ hdbBlocks' \subseteq hdbBlocks
    \/ \E t \in Threads :
         /\ pc[t] = "s_loop"
         /\ hdbBlocks' = hdbBlocks \cup {EthBlockByNumber(sv[t].lastSavedBlock.EthBlockNum + 1)}
         /\ hdbBlocks # {} => GetLastBlock(hdbBlocks) = sv[t].lastSavedBlock
         /\ hdbBlocks = {} => firstSavedBlock = sv[t].lastSavedBlock

C4_Run ==
    /\ Contiguous(BlockNums(hdbBlocks))
    /\ Cardinality(BlockNums(hdbBlocks)) = Cardinality(hdbBlocks)
    /\ \A t \in Threads :
         (pc[t] = "done" /\ obs[t].op = "Sync" /\ ret[t] = NoErr) =>
           /\ hdbBlocks # {}
           /\ GetLastBlock(hdbBlocks).EthBlockNum = sv[t].latestBlockNum

C5_MutualExclusion ==
    /\ Cardinality({t \in Threads : InBody(t)}) <= 1
    /\ mux # 0 => InBody(mux)
    /\ \A t \in Threads : InBody(t) => mux = t

\* a call has returned an error and the mutex is free again
C5_Witness ==
    \E t \in Threads :
      /\ pc[t] = "done" /\ ret[t] \in {ErrNotAbleToSync, ErrRollupSync, Panic}
      /\ mux = 0

ColdSyncDone(t) ==
    /\ pc[t] = "done" /\ obs[t].op = "Sync" /\ ret[t] = NoErr
    /\ obs[t].cold /\ ~obs[t].moved

\* C6: cold start: with an empty history and the chain head at H, one
\* successful Sync leaves the history holding every block from H - 20 through
\* H, no batches, and the state DB at the empty tree.
C6_ColdStartWindow ==
    \A t \in Threads : ColdSyncDone(t) =>
      /\ BlockNums(hdbBlocks) = (ChainHead - blocksToSync)..ChainHead
      /\ hdbBatches = {}
      /\ sdbBatch = 0 /\ sdbCheckpoints = {}

\* what the code does: the block numbered firstSavedBlock is not saved
C6_ColdStartAboveFirst ==
    \A t \in Threads : ColdSyncDone(t) =>
      /\ BlockNums(hdbBlocks) = (ChainHead - blocksToSync + 1)..ChainHead
      /\ hdbBlocks = Common(hdbBlocks)
      /\ hdbBatches = {}
      /\ sdbBatch = 0 /\ sdbCheckpoints = {}

SyncDone(t) ==
    pc[t] = "done" /\ obs[t].op = "Sync" /\ ret[t] = NoErr /\ ~obs[t].moved

\* the history holds the chain's own blocks, up to its head, and only batches
\* forged in blocks it holds
HistoryOfChain ==
    /\ hdbBlocks = Common(hdbBlocks)
    /\ hdbBlocks # {} /\ GetLastBlock(hdbBlocks).EthBlockNum = ChainHead
    /\ Contiguous(BlockNums(hdbBlocks))
    /\ \A b \in hdbBatches : HasBlock(hdbBlocks, b.EthBlockNum)

\* C7: reorg idempotence: after a Sync that followed a reorg the history and
\* the state DB are those of a sync of the final chain: no row and no
\* checkpoint of the abandoned blocks survives.
C7_ReorgIdempotent ==
    \A t \in Threads : SyncDone(t) =>
      /\ HistoryOfChain
      /\ sdbBatch = GetLastBatchNum(hdbBatches)
      /\ sdbCheckpoints = 1..GetLastBatchNum(hdbBatches)

\* the part of C7 the code keeps: the history store
C7_HistoryPart == \A t \in Threads : SyncDone(t) => HistoryOfChain

\* C8: a block is written only after its rollup and auction data were
\* obtained: when rollupSync or auctionSync fails for block b, Sync returns
\* that error, b is not in the history and the last saved block is b - 1.
C8_NoWriteOnFetchError ==
    \A t \in Threads :
      (pc[t] = "done" /\ ret[t] \in {ErrRollupSync, ErrAuctionSync}) =>
        LET b == sv[t].lastSavedBlock.EthBlockNum + 1 IN
        /\ \A x \in hdbBlocks : x.EthBlockNum < b
        /\ hdbBlocks # {} => GetLastBlock(hdbBlocks).EthBlockNum = b - 1

\* auctionSync failed for a block after earlier blocks had been written
C8_Witness ==
    \E t \in Threads :
      /\ pc[t] = "done" /\ ret[t] = ErrAuctionSync
      /\ hdbBlocks # {}
      /\ GetLastBlock(hdbBlocks).EthBlockNum < sv[t].latestBlockNum

\* ==================================================== Part II: coordinator loop
\* The loop is described in the design document (sections 4.H, 5 and 9): a
\* single writer that goes  select -> process -> prove -> submit -> wait for
\* the synchronizer, and rolls back and retries when a stage fails.

MaxSubmissions == 3     \* forge transactions submitted in one behaviour
MaxFailures == 2        \* failed stages in one behaviour

CoStates == {"Idle", "Selecting", "Processing", "Proving", "Submitting",
             "WaitingForSync"}

\* submissions the synchronizer has neither confirmed nor seen die
Unresolved(subs) == {i \in 1..Len(subs) : subs[i].Status = "pending"}

\* (f) roll back the local fork and the pool marks, retry at a later tick
Rollback ==
    /\ coState' = "Idle"
    /\ coMarked' = FALSE

\* timer tick: a new attempt at the current batch
CoTick ==
    /\ coState = "Idle"
    /\ Len(coSubs) < MaxSubmissions
    /\ coState' = "Selecting"
    /\ UNCHANGED <<coBatch, coMarked, coSubs, coFails>>
    /\ UNCHANGED syncSelVars

\* (a) the selector returns a candidate batch; the pool txs are marked
CoSelect ==
    /\ coState = "Selecting"
    /\ coState' = "Processing"
    /\ coMarked' = TRUE
    /\ UNCHANGED <<coBatch, coSubs, coFails>>
    /\ UNCHANGED syncSelVars

\* (b) the processor produces the ZKInputs against a local fork
CoProcess ==
    /\ coState = "Processing"
    /\ coState' = "Proving"
    /\ UNCHANGED <<coBatch, coMarked, coSubs, coFails>>
    /\ UNCHANGED syncSelVars

\* (c) the prover answers with a proof
CoProve ==
    /\ coState = "Proving"
    /\ coState' = "Submitting"
    /\ UNCHANGED <<coBatch, coMarked, coSubs, coFails>>
    /\ UNCHANGED syncSelVars

\* the loop resumes at once after a submission
AfterSubmit_Idle == "Idle"

\* (e) after a submission the loop waits for the synchronizer
AfterSubmit == "WaitingForSync"

\* (d) the forge transaction is sent to the chain
CoSubmit ==
    /\ coState = "Submitting"
    /\ coSubs' = Append(coSubs, [BatchNum |-> coBatch, Status |-> "pending"])
    /\ coState' = AfterSubmit
    /\ UNCHANGED <<coBatch, coMarked, coFails>>
    /\ UNCHANGED syncSelVars

\* (f) a stage (a)-(d) fails or times out
CoFail ==
    /\ coState \in {"Selecting", "Processing", "Proving", "Submitting"}
    /\ coFails < MaxFailures
    /\ coFails' = coFails + 1
    /\ Rollback
    /\ UNCHANGED <<coBatch, coSubs>>
    /\ UNCHANGED syncSelVars

\* the synchronizer observes the forged batch on chain and commits it
SyncConfirms ==
    /\ \E i \in Unresolved(coSubs) :
         coSubs' = [coSubs EXCEPT ![i].Status = "confirmed"]
    /\ UNCHANGED <<coState, coBatch, coMarked, coFails>>
    /\ UNCHANGED syncSelVars

\* the forge transaction reverts or is reorganised away
DeclareDead ==
    /\ \E i \in Unresolved(coSubs) :
         coSubs' = [coSubs EXCEPT ![i].Status = "dead"]
    /\ UNCHANGED <<coState, coBatch, coMarked, coFails>>
    /\ UNCHANGED syncSelVars

\* (e) the awaited batch is committed: advance to the next batch
CoAdvance ==
    /\ coState = "WaitingForSync"
    /\ coSubs[Len(coSubs)].Status = "confirmed"
    /\ coState' = "Idle"
    /\ coBatch' = coBatch + 1
    /\ coMarked' = FALSE
    /\ UNCHANGED <<coSubs, coFails>>
    /\ UNCHANGED syncSelVars

\* (f) the awaited attempt is dead: roll back and forge the batch again
CoRetry ==
    /\ coState = "WaitingForSync"
    /\ coSubs[Len(coSubs)].Status = "dead"
    /\ Rollback
    /\ UNCHANGED <<coBatch, coSubs, coFails>>
    /\ UNCHANGED syncSelVars

CoInit ==
    /\ coState = "Idle"
    /\ coBatch = 1
    /\ coMarked = FALSE
    /\ coSubs = <<>>
    /\ coFails = 0

CoNext ==
    \/ CoTick
    \/ CoSelect
    \/ CoProcess
    \/ CoProve
    \/ CoSubmit
    \/ CoFail
    \/ SyncConfirms
    \/ DeclareDead
    \/ CoAdvance
    \/ CoRetry

\* ============================================== Part III: transaction selector
\* GetL1L2TxSelection as the design document states it (section 4.G) and as
\* the selector's tests show it (TestGetL2TxSelectionMinimumFlow0,
\* TestPoolL2TxsWithoutEnoughBalance).

MaxL1UserTxs == 1       \* SelectionConfig.MaxL1UserTxs
MaxL1Tx == 2            \* txprocessor.Config.MaxL1Tx
MaxTx == 3              \* txprocessor.Config.MaxTx
MaxFeeTx == 1           \* txprocessor.Config.MaxFeeTx
MaxSelBatch == 2        \* selections ahead of the synchronized state
LoadAmount == 7         \* amount of every deposit
TxAmount == 1           \* amount of every pool transfer
TxFee == 1              \* fee of every pool transfer

\* the pool holds more txs than a batch has room for
MaxPool == MaxTx + 1

CoordUser == "Coord"

\* the transfers of the tests' batch 7: A sends token 1 to B, B token 0 to C
Senders == {"A", "B"}

Receiver(u) == IF u = "A" THEN "B" ELSE "C"

SendToken(u) == IF u = "A" THEN 1 ELSE 0

Rank(u) == IF u = "A" THEN 1 ELSE 2

ErrTooManyL1UserTxs == "ErrTooManyL1UserTxs"

\* ---- accounts of the local accounts DB
\* StateDB.GetIdxByEthAddrBJJ, as a position in the account list (0: none)
AccountPos(accs, u, t) ==
    IF \E i \in 1..Len(accs) : accs[i].EthAddr = u /\ accs[i].TokenID = t
    THEN CHOOSE i \in 1..Len(accs) : accs[i].EthAddr = u /\ accs[i].TokenID = t
    ELSE 0

HasAccount(accs, u, t) == AccountPos(accs, u, t) # 0

\* the first account gets Idx 256
IdxOf(pos) == 255 + pos

CurrentIdx == IdxOf(Len(selAccounts))

\* ---- L1 txs
L1UserTx(u) == [FromEthAddr |-> u, TokenID |-> SendToken(u),
                LoadAmount |-> LoadAmount, UserOrigin |-> TRUE]

L1CoordinatorTx(u, t) == [FromEthAddr |-> u, TokenID |-> t,
                          LoadAmount |-> 0, UserOrigin |-> FALSE]

\* the frozen queue of a batch: any list of deposits, also one too long
L1Queues == UNION {[1..k -> {L1UserTx(u) : u \in Senders}] : k \in 0..MaxL1UserTxs + 1}

\* a deposit creates the account of its owner and token, or loads it
ProcessL1Tx(accs, tx) ==
    LET pos == AccountPos(accs, tx.FromEthAddr, tx.TokenID) IN
    IF pos = 0
    THEN Append(accs, [EthAddr |-> tx.FromEthAddr, TokenID |-> tx.TokenID,
                       Nonce |-> 0, Balance |-> tx.LoadAmount])
    ELSE [accs EXCEPT ![pos].Balance = @ + tx.LoadAmount]

RECURSIVE ProcessL1Txs(_, _)
ProcessL1Txs(accs, txs) ==
    IF txs = <<>> THEN accs
    ELSE ProcessL1Txs(ProcessL1Tx(accs, Head(txs)), Tail(txs))

\* ---- L2 txs
PoolTx(u, n) == [From |-> u, To |-> Receiver(u), TokenID |-> SendToken(u),
                 Amount |-> TxAmount, Fee |-> TxFee, Nonce |-> n]

\* RollupConstExitIDx: the receiver of an Exit, which is no account
ExitAccount == "Exit"

IsExit(tx) == tx.To = ExitAccount

\* the fee is burnt
CoordinatorFee_None(tx) == 0

\* what the coordinator's fee account of the token gets of tx
CoordinatorFee(tx) == tx.Fee

\* the processor applies tx: its sender and receiver accounts exist (an Exit
\* has no receiver account), the nonce is the sender's and the balance covers
\* amount and fee; else tx is marked not applied
Applies(accs, tx) ==
    LET s == AccountPos(accs, tx.From, tx.TokenID) IN
    /\ s # 0
    /\ IsExit(tx) \/ HasAccount(accs, tx.To, tx.TokenID)
    /\ tx.Nonce = accs[s].Nonce
    /\ accs[s].Balance >= tx.Amount + tx.Fee

\* a transfer: the sender pays amount and fee, the receiver gets the amount,
\* the coordinator's account of the token gets the fee; the amount of an Exit
\* goes to the exit tree of the batch; a tx that is not applied does not
\* change the state
ProcessL2Tx(accs, tx) ==
    LET s == AccountPos(accs, tx.From, tx.TokenID)
        r == AccountPos(accs, tx.To, tx.TokenID)
        c == AccountPos(accs, CoordUser, tx.TokenID)
    IN IF ~Applies(accs, tx) THEN accs
       ELSE [i \in 1..Len(accs) |->
          [EthAddr |-> accs[i].EthAddr,
           TokenID |-> accs[i].TokenID,
           Nonce |-> accs[i].Nonce + (IF i = s THEN 1 ELSE 0),
           Balance |-> accs[i].Balance
                       - (IF i = s THEN tx.Amount + tx.Fee ELSE 0)
                       + (IF i = r THEN tx.Amount ELSE 0)
                       + (IF i = c THEN CoordinatorFee(tx) ELSE 0)]]

RECURSIVE ProcessL2Txs(_, _)
ProcessL2Txs(accs, txs) ==
    IF txs = <<>> THEN accs
    ELSE ProcessL2Txs(ProcessL2Tx(accs, Head(txs)), Tail(txs))

\* l2db.GetPendingTxs
PendingTxs(p) == {e.Tx : e \in {x \in p : x.State = "pending"}}

\* candidates in ascending nonce, senders in a fixed order at equal nonce
TxBefore(a, b) ==
    \/ a.Nonce < b.Nonce
    \/ a.Nonce = b.Nonce /\ Rank(a.From) < Rank(b.From)

RECURSIVE SortTxs(_)
SortTxs(S) ==
    IF S = {} THEN <<>>
    ELSE LET m == CHOOSE x \in S : \A y \in S \ {x} : TxBefore(x, y)
         IN <<m>> \o SortTxs(S \ {m})

RECURSIVE CountBy(_, _, _)
CountBy(txs, u, t) ==
    IF txs = <<>> THEN 0
    ELSE (IF Head(txs).From = u /\ Head(txs).TokenID = t THEN 1 ELSE 0)
         + CountBy(Tail(txs), u, t)

RECURSIVE SpentBy(_, _, _)
SpentBy(txs, u, t) ==
    IF txs = <<>> THEN 0
    ELSE (IF Head(txs).From = u /\ Head(txs).TokenID = t
          THEN Head(txs).Amount + Head(txs).Fee ELSE 0)
         + SpentBy(Tail(txs), u, t)

RECURSIVE ReceivedBy(_, _, _)
ReceivedBy(txs, u, t) ==
    IF txs = <<>> THEN 0
    ELSE (IF Head(txs).To = u /\ Head(txs).TokenID = t
          THEN Head(txs).Amount ELSE 0)
         + ReceivedBy(Tail(txs), u, t)

\* what the sender gets of the txs selected before is counted
NetSpent_LessReceived(txs, u, t) == SpentBy(txs, u, t) - ReceivedBy(txs, u, t)

\* what the txs selected before take of the sender's balance in state
NetSpent(txs, u, t) == SpentBy(txs, u, t)

TokensOf(txs) == {txs[i].TokenID : i \in 1..Len(txs)}

Creates(txs, u, t) ==
    \E i \in 1..Len(txs) : txs[i].FromEthAddr = u /\ txs[i].TokenID = t

\* ---- capacity of a batch
\* the frozen queue fits
QueueFits(nUser) == nUser <= MaxL1UserTxs

\* the L1 txs of the batch fit
L1Fits(nUser, nCoord) == nUser + nCoord <= MaxL1Tx

\* the pool txs alone are cropped at MaxTx
TxFits_L2Only(nL2, nUser, nCoord) == nL2 <= MaxTx

\* all txs of the batch fit
TxFits(nL2, nUser, nCoord) == nL2 + nUser + nCoord <= MaxTx

\* one fee recipient per token
FeeFits(tokens) == Cardinality(tokens) <= MaxFeeTx

\* ---- selection of the pool txs
EmptySel == [l2Txs |-> <<>>, coordTxs |-> <<>>, recvTxs |-> <<>>]

\* the coordinator has no account yet to collect the fee of tx
NeedsCoordAccount(accs, st, tx) ==
    /\ ~HasAccount(accs, CoordUser, tx.TokenID)
    /\ ~Creates(st.coordTxs, CoordUser, tx.TokenID)

\* the receiver of tx has no account yet in the token
NeedsRecvAccount(accs, st, tx) ==
    /\ ~IsExit(tx)
    /\ ~HasAccount(accs, tx.To, tx.TokenID)
    /\ ~Creates(st.recvTxs, tx.To, tx.TokenID)

\* st with tx selected, and the coordinator L1 txs it needs
Take(accs, st, tx) ==
    [l2Txs |-> Append(st.l2Txs, tx),
     coordTxs |-> IF NeedsCoordAccount(accs, st, tx)
                  THEN Append(st.coordTxs, L1CoordinatorTx(CoordUser, tx.TokenID))
                  ELSE st.coordTxs,
     recvTxs |-> IF NeedsRecvAccount(accs, st, tx)
                 THEN Append(st.recvTxs, L1CoordinatorTx(tx.To, tx.TokenID))
                 ELSE st.recvTxs]

\* the fee is left out of the amount to cover
Affordable_FeeFree(balance, spent, tx) == balance - spent >= tx.Amount

\* the sender's balance, less what its txs selected before spend, covers the
\* amount and the fee of tx; amounts received in the same batch do not count
Affordable(balance, spent, tx) == balance - spent >= tx.Amount + tx.Fee

\* a nonce not below the expected one is accepted
NonceOk_AtLeast(nonce, earlier, tx) == tx.Nonce >= nonce + earlier

\* the nonce of tx is its sender's nonce plus the sender's txs selected before
NonceOk(nonce, earlier, tx) == tx.Nonce = nonce + earlier

\* tx can join the batch: accs is the state after the L1 user txs, au the
\* stored authorizations, st what is selected so far
Selectable(accs, au, nUser, st, tx) ==
    LET pos == AccountPos(accs, tx.From, tx.TokenID)
        nx == Take(accs, st, tx)
        nCoord == Len(nx.coordTxs) + Len(nx.recvTxs)
    IN /\ pos # 0
       /\ NonceOk(accs[pos].Nonce, CountBy(st.l2Txs, tx.From, tx.TokenID), tx)
       /\ Affordable(accs[pos].Balance, NetSpent(st.l2Txs, tx.From, tx.TokenID), tx)
       /\ NeedsRecvAccount(accs, st, tx) => tx.To \in au
       /\ L1Fits(nUser, nCoord)
       /\ TxFits(Len(nx.l2Txs), nUser, nCoord)
       /\ FeeFits(TokensOf(nx.l2Txs))

RECURSIVE SelectL2(_, _, _, _, _)
SelectL2(accs, au, nUser, cands, st) ==
    IF cands = <<>> THEN st
    ELSE SelectL2(accs, au, nUser, Tail(cands),
                  IF Selectable(accs, au, nUser, st, Head(cands))
                  THEN Take(accs, st, Head(cands)) ELSE st)

\* the authorizations of the users only
AuthsFor_Stored(txs) ==
    LET stored == SelectSeq(txs, LAMBDA tx : tx.FromEthAddr # CoordUser)
    IN [i \in 1..Len(stored) |-> stored[i].FromEthAddr]

\* the owner's authorization goes with each coordinator L1 tx
AuthsFor(txs) == [i \in 1..Len(txs) |-> txs[i].FromEthAddr]

\* the coordinator's fee accounts of the selected tokens, by ascending Idx
RECURSIVE SortIdxs(_)
SortIdxs(S) ==
    IF S = {} THEN <<>>
    ELSE LET m == CHOOSE x \in S : \A y \in S : x <= y
         IN <<m>> \o SortIdxs(S \ {m})

\* all the fee accounts the coordinator has
CoordIdxs_All(accs, l2Txs) ==
    SortIdxs({IdxOf(i) : i \in {j \in 1..Len(accs) : accs[j].EthAddr = CoordUser}})

CoordIdxs(accs, l2Txs) ==
    SortIdxs({IdxOf(AccountPos(accs, CoordUser, t)) : t \in TokensOf(l2Txs)})

\* snapshot: the accounts the selection started from (history field)
NoSelection == [err |-> Running, coordIdxs |-> <<>>, accAuths |-> <<>>,
                l1UserTxs |-> <<>>, l1CoordinatorTxs |-> <<>>, l2Txs |-> <<>>,
                snapshot |-> <<>>]

\* what GetL1L2TxSelection returns, and the accounts it leaves
Selection(accs, p, au, l1UserTxs) ==
    IF ~QueueFits(Len(l1UserTxs))
    THEN [out |-> [NoSelection EXCEPT !.err = ErrTooManyL1UserTxs],
          accounts |-> accs]
    ELSE LET afterUser == ProcessL1Txs(accs, l1UserTxs)
             st == SelectL2(afterUser, au, Len(l1UserTxs),
                            SortTxs(PendingTxs(p)), EmptySel)
             l1Coord == st.coordTxs \o st.recvTxs
             afterCoord == ProcessL1Txs(afterUser, l1Coord)
         IN [out |-> [err |-> NoErr,
                      coordIdxs |-> CoordIdxs(afterCoord, st.l2Txs),
                      accAuths |-> AuthsFor(l1Coord),
                      l1UserTxs |-> l1UserTxs,
                      l1CoordinatorTxs |-> l1Coord,
                      l2Txs |-> st.l2Txs,
                      snapshot |-> accs],
             accounts |-> ProcessL2Txs(afterCoord, st.l2Txs)]

\* the selected txs of the last output that are not marked yet
Unmarked == {e \in pool : e.State = "pending"
                          /\ \E i \in 1..Len(selOut.l2Txs) : selOut.l2Txs[i] = e.Tx}

\* a batch with no tx in it makes no checkpoint
MakeCheckpoint_IfSelected(batch, out) ==
    IF out.l1UserTxs = <<>> /\ out.l2Txs = <<>> THEN batch ELSE batch + 1

\* the local accounts DB makes the checkpoint of the batch selected
MakeCheckpoint(batch, out) == batch + 1

\* ---- operations
\* nonces of the pool txs of a sender
PoolNonces(u) == {e.Tx.Nonce : e \in {x \in pool : x.Tx.From = u}}

\* the lowest nonce the sender has not used yet
NextNonce(u) ==
    CHOOSE n \in 0..Cardinality(pool) :
      n \notin PoolNonces(u) /\ \A m \in 0..n - 1 : m \in PoolNonces(u)

\* a wallet sends its next tx, or one tx ahead of it
IngressNonces(u) == {NextNonce(u), NextNonce(u) + 1} \ PoolNonces(u)

\* pool ingress: a tx of a sender
AddTx(u, n) ==
    /\ Cardinality(pool) < MaxPool
    /\ n \in IngressNonces(u)
    /\ pool' = pool \cup {[Tx |-> PoolTx(u, n), State |-> "pending", BatchNum |-> 0]}
    /\ UNCHANGED <<selAccounts, selBatch, auths, selOut>>
    /\ UNCHANGED syncCoVars

\* l2db.AddAccountCreationAuth
AddAccountCreationAuth(u) ==
    /\ u \notin auths
    /\ auths' = auths \cup {u}
    /\ UNCHANGED <<selAccounts, selBatch, pool, selOut>>
    /\ UNCHANGED syncCoVars

\* TxSelector.GetL1L2TxSelection
GetL1L2TxSelection(l1UserTxs) ==
    /\ selBatch < sdbBatch + MaxSelBatch
    /\ Unmarked = {}
    /\ \E sel \in {Selection(selAccounts, pool, auths, l1UserTxs)} :
       /\ selOut' = sel.out
       /\ selAccounts' = sel.accounts
       /\ selBatch' = IF sel.out.err = NoErr
                      THEN MakeCheckpoint(selBatch, sel.out) ELSE selBatch
    /\ UNCHANGED <<pool, auths>>
    /\ UNCHANGED syncCoVars

\* l2db.StartForging, called with the selected txs and the new batch number
StartForging ==
    /\ Unmarked # {}
    /\ pool' = {IF e \in Unmarked
                THEN [e EXCEPT !.State = "forging", !.BatchNum = selBatch]
                ELSE e : e \in pool}
    /\ UNCHANGED <<selAccounts, selBatch, auths, selOut>>
    /\ UNCHANGED syncCoVars

\* a tx is marked forged whatever its state
ForgedFrom_Any == {"pending", "forging"}

\* the states a tx is marked forged from
ForgedFrom == {"forging"}

\* the states a tx is invalidated from
InvalidFrom == {"pending"}

\* the batches with txs marked forging
ForgingBatches == {e.BatchNum : e \in {x \in pool : x.State = "forging"}}

\* l2db.DoneForging: the batch is observed on-chain, its txs are forged
DoneForging(txs, batchNum) ==
    /\ batchNum \in ForgingBatches
    /\ \A b \in ForgingBatches : batchNum <= b
    /\ \E e \in pool : e.Tx \in txs /\ e.State \in ForgedFrom
    /\ pool' = {IF e.Tx \in txs /\ e.State \in ForgedFrom
                THEN [e EXCEPT !.State = "forged", !.BatchNum = batchNum]
                ELSE e : e \in pool}
    /\ UNCHANGED <<selAccounts, selBatch, auths, selOut>>
    /\ UNCHANGED syncCoVars

\* l2db.InvalidateTxs: txs that cannot be selected any more (TTL, old nonce)
InvalidateTxs(txs) ==
    /\ \E e \in pool : e.Tx \in txs /\ e.State \in InvalidFrom
    /\ pool' = {IF e.Tx \in txs /\ e.State \in InvalidFrom
                THEN [e EXCEPT !.State = "invalid"]
                ELSE e : e \in pool}
    /\ UNCHANGED <<selAccounts, selBatch, auths, selOut>>
    /\ UNCHANGED syncCoVars

\* pool maintenance: the forging marks of a batch that failed to forge are
\* rolled back
RollbackForging(batchNum) ==
    /\ batchNum \in ForgingBatches
    /\ \A b \in ForgingBatches : b <= batchNum
    /\ pool' = {IF e.State = "forging" /\ e.BatchNum = batchNum
                THEN [e EXCEPT !.State = "pending", !.BatchNum = 0]
                ELSE e : e \in pool}
    /\ UNCHANGED <<selAccounts, selBatch, auths, selOut>>
    /\ UNCHANGED syncCoVars

\* the pool's txs marked with a batch; the batch the synchronizer reads holds
\* them, and may hold txs the pool has pending (forged by another coordinator)
TxsOfBatch(b) == {e.Tx : e \in {x \in pool : x.BatchNum = b}}

\* the accounts of the two senders, funded by their deposits
FundedAccounts == ProcessL1Txs(<<>>, <<L1UserTx("A"), L1UserTx("B")>>)

\* the selector starts from the synchronized state: empty at batch 0, else
\* holding the senders' accounts
SelInit ==
    /\ selAccounts = IF sdbBatch = 0 THEN <<>> ELSE FundedAccounts
    /\ selBatch = sdbBatch
    /\ pool = {}
    /\ auths = {}
    /\ selOut = NoSelection

SelNext ==
    \/ \E u \in Senders, n \in 0..MaxPool : AddTx(u, n)
    \/ \E u \in {Receiver(s) : s \in Senders} : AddAccountCreationAuth(u)
    \/ \E q \in L1Queues : GetL1L2TxSelection(q)
    \/ StartForging

\* ---- the accounts and the pool of TestPoolL2TxsWithoutEnoughBalance
\* the fee of selector 126: a tenth of the amount
Fee126(amount) == amount \div 10

BalTx(from, to, amount, n) ==
    [From |-> from, To |-> to, TokenID |-> 0, Amount |-> amount,
     Fee |-> Fee126(amount), Nonce |-> n]

\* CreateAccountDeposit(0) Coord: 0, A: 100, B: 100
BalAccounts ==
    <<[EthAddr |-> CoordUser, TokenID |-> 0, Nonce |-> 0, Balance |-> 0],
      [EthAddr |-> "A", TokenID |-> 0, Nonce |-> 0, Balance |-> 100],
      [EthAddr |-> "B", TokenID |-> 0, Nonce |-> 0, Balance |-> 100]>>

\* PoolTransferToEthAddr(0) A-B: 100 and 50, PoolExit(0) B: 100, and a
\* transfer back, each as the sender's first or second tx
BalTxs ==
    {BalTx("A", "B", a, n) : a \in {50, 100}, n \in 0..1}
    \cup {BalTx("B", to, 100, n) : to \in {ExitAccount, "A"}, n \in 0..1}

\* pool ingress of the test: a tx with a nonce its sender has not used
AddBalTx(tx) ==
    /\ Cardinality(pool) < MaxPool
    /\ \A e \in pool : e.Tx.From = tx.From => e.Tx.Nonce # tx.Nonce
    /\ pool' = pool \cup {[Tx |-> tx, State |-> "pending", BatchNum |-> 0]}
    /\ UNCHANGED <<selAccounts, selBatch, auths, selOut>>
    /\ UNCHANGED syncCoVars

\* the selector starts from the state with the three accounts
BalInit ==
    /\ selAccounts = BalAccounts
    /\ selBatch = sdbBatch
    /\ pool = {}
    /\ auths = {}
    /\ selOut = NoSelection

BalNext ==
    \/ \E tx \in BalTxs : AddBalTx(tx)
    \/ GetL1L2TxSelection(<<>>)
    \/ StartForging

\* ================================================= Part IV: batch builders
Builders == {1, 2}

\* the other components' variables
syncCoSelVars == <<syncVars, coVars, selVars, apiVars, evVars, cxVars, ppVars>>

\* the accounts of the main state DB at its checkpoint n: the senders' deposits
\* in batch 1, a deposit of A in each later batch
RECURSIVE CheckpointAccounts(_)
CheckpointAccounts(n) ==
    IF n = 0 THEN <<>>
    ELSE IF n = 1 THEN FundedAccounts
    ELSE ProcessL1Tx(CheckpointAccounts(n - 1), L1UserTx("A"))

\* the root is derived from the stored leaves
Root(accs) == accs

\* the local store of a reset keeps what it held
ResetTo_Current(db, cp) == db.accounts

\* the accounts a reset leaves: those of the checkpoint
ResetTo(db, cp) == cp

\* StateDB.Reset(batchNum) on a store: current batch and accounts are those of
\* its checkpoint, later checkpoints are discarded; batch 0 is the empty tree
StateDBReset(db, batchNum) ==
    LET cp == IF batchNum = 0 THEN <<>> ELSE db.cps[batchNum] IN
    [batch |-> batchNum,
     accounts |-> ResetTo(db, cp),
     cps |-> [n \in ResetCheckpoints(DOMAIN db.cps, batchNum) |-> db.cps[n]]]

\* LocalStateDB.Reset from the synchronizer: the main DB's checkpoint is copied
\* over the local store
ResetFromSynchronizer(db, batchNum) ==
    LET cp == CheckpointAccounts(batchNum) IN
    [batch |-> batchNum,
     accounts |-> ResetTo(db, cp),
     cps |-> [n \in {batchNum} \ {0} |-> cp]]

\* the checkpoint a LocalStateDB.Reset asks for exists
HasCheckpoint(db, batchNum, fromSynchronizer) ==
    \/ batchNum = 0
    \/ fromSynchronizer /\ batchNum \in sdbCheckpoints
    \/ ~fromSynchronizer /\ batchNum \in DOMAIN db.cps

\* the state of the checkpoint a LocalStateDB.Reset asks for
CheckpointOf(db, batchNum, fromSynchronizer) ==
    IF batchNum = 0 THEN <<>>
    ELSE IF fromSynchronizer THEN CheckpointAccounts(batchNum)
    ELSE db.cps[batchNum]

\* LocalStateDB.Reset(batchNum, fromSynchronizer)
LocalStateDBReset(db, batchNum, fromSynchronizer) ==
    IF fromSynchronizer THEN ResetFromSynchronizer(db, batchNum)
    ELSE StateDBReset(db, batchNum)

\* BatchBuilder.Reset, lines 320-322; an error leaves the store as it was
BBReset(f, batchNum, fromSynchronizer) ==
    /\ IF HasCheckpoint(bb[f], batchNum, fromSynchronizer)
       THEN /\ bb' = [bb EXCEPT ![f] = LocalStateDBReset(@, batchNum, fromSynchronizer)]
            /\ bbFed' = [bbFed EXCEPT ![f] =
                  [base |-> CheckpointOf(bb[f], batchNum, fromSynchronizer),
                   fed |-> <<>>]]
       ELSE UNCHANGED <<bb, bbFed>>
    /\ UNCHANGED syncCoSelVars

\* StateDB.ProcessTxs: L1 user txs, L1 coordinator txs, then L2 txs, in order
ProcessTxs(accs, l1usertxs, l1coordinatortxs, l2txs) ==
    ProcessL2Txs(ProcessL1Txs(ProcessL1Txs(accs, l1usertxs), l1coordinatortxs),
                 l2txs)

\* the tx lists handed to a builder: a deposit of A, the accounts of the
\* coordinator and of the receiver, two transfers of A in either order
BuildInputs ==
    {[l1usertxs |-> <<L1UserTx("A")>>,
      l1coordinatortxs |-> <<L1CoordinatorTx(CoordUser, SendToken("A")),
                             L1CoordinatorTx(Receiver("A"), SendToken("A"))>>,
      l2txs |-> t] :
        t \in {<<PoolTx("A", 0), PoolTx("A", 1)>>,
               <<PoolTx("A", 1), PoolTx("A", 0)>>}}

\* BatchBuilder.BuildBatch, lines 325-328: the local state DB processes the
\* txs; the batch processed has its checkpoint
BuildBatch(f, in) ==
    /\ bb[f].batch < sdbBatch + MaxLocalBatch
    /\ Len(bbFed[f].fed) < MaxLocalBatch
    /\ LET accs == ProcessTxs(bb[f].accounts, in.l1usertxs,
                              in.l1coordinatortxs, in.l2txs)
           n == bb[f].batch + 1
       IN bb' = [bb EXCEPT ![f] =
                   [batch |-> n, accounts |-> accs,
                    cps |-> [k \in DOMAIN @.cps \cup {n} |->
                               IF k = n THEN accs ELSE @.cps[k]]]]
    /\ bbFed' = [bbFed EXCEPT ![f].fed = Append(@, in)]
    /\ UNCHANGED syncCoSelVars

\* NewBatchBuilder, lines 301-314: bb.Reset(batchNum, true) at the batch the
\* synchronizer is at
BBInit ==
    /\ bb = [f \in Builders |-> ResetFromSynchronizer(
                [batch |-> 0, accounts |-> <<>>, cps |-> <<>>], sdbBatch)]
    /\ bbFed = [f \in Builders |->
                  [base |-> CheckpointAccounts(sdbBatch), fed |-> <<>>]]

BBNext ==
    \/ \E f \in Builders, n \in 0..MaxBatch + MaxLocalBatch, s \in BOOLEAN :
         BBReset(f, n, s)
    \/ \E f \in Builders, in \in BuildInputs : BuildBatch(f, in)

\* ======================================== Part V: API reads of the history
\* the other components' variables
nonApiVars == <<syncVars, coVars, selVars, bbVars, evVars, cxVars, ppVars>>

NoAPI == "-"
\* a nil *uint
NilItem == -1
OrderAsc == "ASC"
OrderDesc == "DESC"

\* ---- uint64: four 16-bit limbs, the lowest first
Limb == 65536

ToUint64(n) == <<n % Limb, (n \div Limb) % Limb, 0, 0>>

\* a - b on uint64: limb by limb with borrow, the last borrow is dropped
RECURSIVE SubLimbs(_, _, _)
SubLimbs(a, b, borrow) ==
    IF a = <<>> THEN <<>>
    ELSE LET d == Head(a) - Head(b) - borrow IN
         IF d < 0 THEN <<d + Limb>> \o SubLimbs(Tail(a), Tail(b), 1)
         ELSE <<d>> \o SubLimbs(Tail(a), Tail(b), 0)

SubUint64(a, b) == SubLimbs(a, b, 0)

\* ---- paginated queries
PaginatedAPIs == {"GetBatchesAPI", "GetBestBidsAPI", "GetBidsAPI", "GetTokensAPI",
                  "GetTxsAPI", "GetExitsAPI", "GetCoordinatorsAPI", "GetAccountsAPI"}

\* getBestBidsAPI takes no fromItem
TakesFromItem(api) == api # "GetBestBidsAPI"

\* the cursor leaves out the row it names
FromItemOk_Strict(order, item, fromItem) ==
    IF order = OrderAsc THEN item > fromItem ELSE item < fromItem

\* WHERE item_id >= ? (ascending) or item_id <= ? (descending)
FromItemOk(order, item, fromItem) ==
    IF order = OrderAsc THEN item >= fromItem ELSE item <= fromItem

\* the rows the WHERE clause keeps: COUNT(*) OVER() counts them
Matching(fromItem, order) ==
    {i \in hItems : fromItem = NilItem \/ FromItemOk(order, i, fromItem)}

\* ORDER BY item_id ASC / DESC LIMIT limit
RECURSIVE OrderLimit(_, _, _)
OrderLimit(S, order, limit) ==
    IF S = {} \/ limit = 0 THEN <<>>
    ELSE LET x == IF order = OrderAsc
                  THEN CHOOSE m \in S : \A y \in S : m <= y
                  ELSE CHOOSE m \in S : \A y \in S : m >= y
         IN <<x>> \o OrderLimit(S \ {x}, order, limit - 1)

\* the pendingItems a query returns with its rows
PendingItems(api, totalItems, len) ==
    IF len = 0 THEN ToUint64(0)
    ELSE IF api = "GetTokensAPI"
    THEN SubUint64(ToUint64(len), ToUint64(totalItems))
    ELSE SubUint64(ToUint64(totalItems), ToUint64(len))

NoResp == [api |-> NoAPI, rows |-> <<>>, pendingItems |-> ToUint64(0),
           matching |-> 0, err |-> Running]

\* what a paginated query returns: rows, pendingItems, nil
Page(api, fromItem, limit, order) ==
    LET rows == OrderLimit(Matching(fromItem, order), order, limit) IN
    [api |-> api, rows |-> rows,
     pendingItems |-> PendingItems(api, Cardinality(Matching(fromItem, order)),
                                   Len(rows)),
     matching |-> Cardinality(Matching(fromItem, order)),
     err |-> NoErr]

\* the query fails: nil, 0, err
ErrPage(api) == [NoResp EXCEPT !.api = api, !.err = ErrDB]

NoRead == [state |-> "none", api |-> NoAPI, limit |-> 0, got |-> <<>>]

\* the client's read after a page of it
ReadAfter(api, limit, got, page) ==
    IF page.err # NoErr THEN NoRead
    ELSE [state |-> IF page.pendingItems = ToUint64(0) THEN "done" ELSE "reading",
          api |-> api, limit |-> limit, got |-> got \o page.rows]

\* a paginated query, alone on the semaphore: the permit is acquired, the
\* query runs or fails, the permit is released
GetPageAPI(api, fromItem, limit, order) ==
    /\ apiHeld = 0
    /\ TakesFromItem(api) \/ fromItem = NilItem
    /\ \E page \in {Page(api, fromItem, limit, order), ErrPage(api)} :
         resp' = page
    /\ read' = NoRead
    /\ UNCHANGED <<hItems, hNext, apiHeld, rd>>
    /\ UNCHANGED nonApiVars

\* a client starts reading a filter in ascending order
GetFirstPage(api, limit) ==
    /\ apiHeld = 0
    /\ TakesFromItem(api)
    /\ \E page \in {Page(api, NilItem, limit, OrderAsc), ErrPage(api)} :
         /\ resp' = page
         /\ read' = ReadAfter(api, limit, <<>>, page)
    /\ UNCHANGED <<hItems, hNext, apiHeld, rd>>
    /\ UNCHANGED nonApiVars

\* the client asks for the next page: fromItem is the last item_id + 1
GetNextPage ==
    /\ apiHeld = 0
    /\ read.state = "reading"
    /\ \E page \in {Page(read.api, read.got[Len(read.got)] + 1, read.limit, OrderAsc),
                    ErrPage(read.api)} :
         /\ resp' = page
         /\ read' = ReadAfter(read.api, read.limit, read.got, page)
    /\ UNCHANGED <<hItems, hNext, apiHeld, rd>>
    /\ UNCHANGED nonApiVars

\* the synchronizer writes a row, which matches the filter or does not; a
\* read in progress is no longer one without writes in between
AddItem(matches) ==
    /\ hNext <= MaxItems
    /\ hItems' = IF matches THEN hItems \cup {hNext} ELSE hItems
    /\ hNext' = hNext + 1
    /\ read' = NoRead
    /\ UNCHANGED <<resp, apiHeld, rd>>
    /\ UNCHANGED nonApiVars

PagNext ==
    \/ \E m \in BOOLEAN : AddItem(m)
    \/ \E api \in PaginatedAPIs, fromItem \in {NilItem} \cup (0..MaxItems + 1),
          limit \in 1..MaxLimit, order \in {OrderAsc, OrderDesc} :
         GetPageAPI(api, fromItem, limit, order)
    \/ \E api \in PaginatedAPIs, limit \in 1..MaxLimit : GetFirstPage(api, limit)
    \/ GetNextPage

\* ---- the semaphore of the API reads
Readers == 1..MaxAPIConns + 1

ErrTimeout == "ErrTimeout"          \* Acquire gave up waiting for a permit
ErrIncompatible == "ethAddr and bjj are incompatible"

\* a plain read, a read that checks its arguments holding the permit, and one
\* that checks them before it asks for the permit
APIReads == {"GetLastBlockAPI", "GetTxsAPI", "GetExitsAPI"}

ChecksArgsFirst(fn) == fn = "GetExitsAPI"

Idle == [pc |-> "idle", fn |-> NoAPI, incompatible |-> FALSE, deferred |-> FALSE,
         acquired |-> 0, released |-> 0, err |-> Running]

\* the deferred Release runs only when the read succeeded
DeferredRelease_OnSuccess(deferred, err) == deferred /\ err = NoErr

\* defer hdb.apiConnCon.Release(): runs at every return after it
DeferredRelease(deferred, err) == deferred

\* an API read is called; GetExitsAPI returns on incompatible arguments before
\* it asks for a permit
APICall(r, fn, incompatible) ==
    /\ rd[r].pc \in {"idle", "done"}
    /\ incompatible => fn # "GetLastBlockAPI"
    /\ rd' = [rd EXCEPT ![r] =
         IF ChecksArgsFirst(fn) /\ incompatible
         THEN [Idle EXCEPT !.pc = "return", !.fn = fn, !.incompatible = TRUE,
                           !.err = ErrIncompatible]
         ELSE [Idle EXCEPT !.pc = "acquire", !.fn = fn,
                           !.incompatible = incompatible]]
    /\ UNCHANGED <<hItems, hNext, resp, read, apiHeld>>
    /\ UNCHANGED nonApiVars

\* apiConnCon.Acquire gets a permit; the Release is deferred
Acquire(r) ==
    /\ rd[r].pc = "acquire"
    /\ apiHeld < MaxAPIConns
    /\ apiHeld' = apiHeld + 1
    /\ rd' = [rd EXCEPT ![r].pc = "body", ![r].deferred = TRUE,
                        ![r].acquired = @ + 1]
    /\ UNCHANGED <<hItems, hNext, resp, read>>
    /\ UNCHANGED nonApiVars

\* apiConnCon.Acquire fails: no permit came free in time
AcquireFails(r) ==
    /\ rd[r].pc = "acquire"
    /\ apiHeld = MaxAPIConns
    /\ rd' = [rd EXCEPT ![r].pc = "return", ![r].err = ErrTimeout]
    /\ UNCHANGED <<hItems, hNext, resp, read, apiHeld>>
    /\ UNCHANGED nonApiVars

\* the body of the read: the argument check of GetTxsAPI, then the query,
\* which runs or fails
APIBody(r) ==
    /\ rd[r].pc = "body"
    /\ \E e \in IF rd[r].incompatible THEN {ErrIncompatible} ELSE {NoErr, ErrDB} :
         rd' = [rd EXCEPT ![r].pc = "return", ![r].err = e]
    /\ UNCHANGED <<hItems, hNext, resp, read, apiHeld>>
    /\ UNCHANGED nonApiVars

\* the read returns: its deferred calls run
APIReturn(r) ==
    /\ rd[r].pc = "return"
    /\ IF DeferredRelease(rd[r].deferred, rd[r].err)
       THEN /\ apiHeld' = apiHeld - 1
            /\ rd' = [rd EXCEPT ![r].pc = "done", ![r].deferred = FALSE,
                                ![r].released = @ + 1]
       ELSE /\ rd' = [rd EXCEPT ![r].pc = "done", ![r].deferred = FALSE]
            /\ UNCHANGED apiHeld
    /\ UNCHANGED <<hItems, hNext, resp, read>>
    /\ UNCHANGED nonApiVars

APINext ==
    \/ \E r \in Readers, fn \in APIReads, i \in BOOLEAN : APICall(r, fn, i)
    \/ \E r \in Readers : Acquire(r)
    \/ \E r \in Readers : AcquireFails(r)
    \/ \E r \in Readers : APIBody(r)
    \/ \E r \in Readers : APIReturn(r)

APIInit ==
    /\ hItems = {}
    /\ hNext = 1
    /\ resp = NoResp
    /\ read = NoRead
    /\ apiHeld = 0
    /\ rd = [r \in Readers |-> Idle]

\* ---- next forgers
\* bids of a table, at most
MaxBids == 2

\* tables bid and coordinator: the rows in the order of their item_id; a bid
\* is made by a registered coordinator and is above the bids made before it
\* for its slot
Bidders == {"c1", "c2"}

BidRows == [SlotNum : {1, 3, 4}, Bidder : Bidders, BidValue : {5, 10, 15}]

RECURSIVE BidTablesOf(_)
BidTablesOf(n) ==
    IF n = 0 THEN {<<>>}
    ELSE BidTablesOf(n - 1) \cup
         {Append(t, r) : t \in {x \in BidTablesOf(n - 1) : Len(x) = n - 1},
                         r \in BidRows}

BidTables ==
    {t \in BidTablesOf(MaxBids) :
       \A i, j \in 1..Len(t) :
         (i < j /\ t[i].SlotNum = t[j].SlotNum) => t[i].BidValue < t[j].BidValue}

\* every bidder has a row, one of them a later row with another URL
CoordinatorTables ==
    {<<[Bidder |-> "c1", URL |-> "u1"], [Bidder |-> "c2", URL |-> "u2"]>>,
     <<[Bidder |-> "c1", URL |-> "u1"], [Bidder |-> "c2", URL |-> "u2"],
       [Bidder |-> "c1", URL |-> "u3"]>>}

\* the updates of DefaultSlotSetBid in table auction_vars, the oldest first:
\* the slot an update counts from and its six minimum bids; AuctionVariables
\* is the last of them
MinBidTables ==
    {<<[DefaultSlotSetBidSlotNum |-> 0,
        DefaultSlotSetBid |-> <<10, 10, 10, 10, 10, 10>>]>>,
     <<[DefaultSlotSetBidSlotNum |-> 0,
        DefaultSlotSetBid |-> <<10, 10, 10, 10, 10, 10>>],
       [DefaultSlotSetBidSlotNum |-> 3,
        DefaultSlotSetBid |-> <<10, 10, 10, 15, 5, 10>>]>>}

BootCoordinator == [Bidder |-> "boot", URL |-> "boot"]

\* MAX(item_id) of the rows of a table that satisfy P
LastRow(t, P(_)) == Max({i \in 1..Len(t) : P(t[i])})

\* SELECT * FROM coordinator WHERE bidder_addr = $1 ORDER BY item_id DESC
\* LIMIT 1
getCoordinatorAPI(coordinators, bidderAddr) ==
    LET Mine(r) == r.Bidder = bidderAddr IN
    IF \E i \in 1..Len(coordinators) : Mine(coordinators[i])
    THEN [row |-> coordinators[LastRow(coordinators, Mine)], err |-> NoErr]
    ELSE [row |-> BootCoordinator, err |-> ErrDB]

\* the best bid of each slot from slot to maxSlotNum, by slot: the row with
\* MAX(item_id) of the slot, joined with the coordinator of its bidder
RECURSIVE BestBidsFrom(_, _, _, _)
BestBidsFrom(bids, coordinators, slot, maxSlotNum) ==
    IF slot > maxSlotNum THEN <<>>
    ELSE LET OfSlot(r) == r.SlotNum = slot
             has == \E i \in 1..Len(bids) : OfSlot(bids[i])
             b == bids[LastRow(bids, OfSlot)]
         IN (IF has /\ getCoordinatorAPI(coordinators, b.Bidder).err = NoErr
             THEN <<b>> ELSE <<>>)
            \o BestBidsFrom(bids, coordinators, slot + 1, maxSlotNum)

\* getBestBidsAPI(d, minSlotNum, maxSlotNum, nil, limit, "ASC")
getBestBidsAPI(bids, coordinators, minSlotNum, maxSlotNum, limit) ==
    LET rows == BestBidsFrom(bids, coordinators, minSlotNum, maxSlotNum)
    IN SubSeq(rows, 1, IF limit < Len(rows) THEN limit ELSE Len(rows))

\* getMinBidInfo(d, currentSlot, lastClosedSlot): the updates, the most
\* recent first
getMinBidInfo(updates) == [i \in 1..Len(updates) |-> updates[Len(updates) + 1 - i]]

BeatsMinBid_Above(minBid, bid) == bid > minBid

\* minBid.Cmp(bid) == 1: min bid is greater than bid
BeatsMinBid(minBid, bid) == ~(minBid > bid)

\* the first update of minBidInfo that a slot is not before
FirstUpdate(minBidInfo, slotNum) ==
    CHOOSE i \in 1..Len(minBidInfo) :
      /\ slotNum >= minBidInfo[i].DefaultSlotSetBidSlotNum
      /\ \A k \in 1..i - 1 : slotNum < minBidInfo[k].DefaultSlotSetBidSlotNum

\* the loop over minBidInfo for the bid of a slot: foundForger
FoundForger(minBidInfo, bid) ==
    /\ \E i \in 1..Len(minBidInfo) :
         bid.SlotNum >= minBidInfo[i].DefaultSlotSetBidSlotNum
    /\ LET minBidSelector == bid.SlotNum % 6
           minBid == minBidInfo[FirstUpdate(minBidInfo, bid.SlotNum)]
                       .DefaultSlotSetBid[minBidSelector + 1]
       IN BeatsMinBid(minBid, bid.BidValue)

\* the first of the bids that is for the slot
FirstBidOf(bids, slot) ==
    CHOOSE j \in 1..Len(bids) :
      bids[j].SlotNum = slot /\ \A k \in 1..j - 1 : bids[k].SlotNum # slot

\* the loop that makes the nextForger of each slot from slot to
\* lastClosedSlot; checked says whether the minimum bid is looked at
RECURSIVE NextForgersFrom(_, _, _, _, _, _, _)
NextForgersFrom(bids, minBidInfo, coordinators, slot, lastClosedSlot, checked, env) ==
    IF slot > lastClosedSlot THEN [rows |-> <<>>, err |-> NoErr]
    ELSE LET hasBid == \E j \in 1..Len(bids) : bids[j].SlotNum = slot
             bid == bids[FirstBidOf(bids, slot)]
             found == hasBid /\ (~checked \/ FoundForger(minBidInfo, bid))
             coordinator == getCoordinatorAPI(coordinators, bid.Bidder)
             rest == NextForgersFrom(bids, minBidInfo, coordinators, slot + 1,
                                     lastClosedSlot, checked, env)
         IN IF found /\ env = "getCoordinatorAPI" THEN [rows |-> <<>>, err |-> ErrDB]
            ELSE IF found /\ coordinator.err # NoErr
            THEN [rows |-> <<>>, err |-> coordinator.err]
            ELSE IF rest.err # NoErr THEN rest
            ELSE [rows |-> <<[SlotNum |-> slot,
                             Coordinator |-> IF found THEN coordinator.row
                                             ELSE BootCoordinator]>> \o rest.rows,
                  err |-> NoErr]

\* HistoryDB.GetNextForgersInternalAPI(auctionVars, auctionConsts, lastBlock,
\* currentSlot, lastClosedSlot) over the tables; env says which query fails,
\* if any
GetNextForgersInternalAPI(bids, coordinators, updates, currentSlot, lastClosedSlot, env) ==
    LET auctionVars == updates[Len(updates)]
        limit == lastClosedSlot - currentSlot + 1
        best == getBestBidsAPI(bids, coordinators, currentSlot, lastClosedSlot, limit)
        direct == currentSlot >= auctionVars.DefaultSlotSetBidSlotNum
        minBidInfo == IF direct THEN <<auctionVars>> ELSE getMinBidInfo(updates)
    IN IF env = "getBestBidsAPI" THEN [rows |-> <<>>, err |-> ErrDB]
       ELSE IF ~direct /\ env = "getMinBidInfo" THEN [rows |-> <<>>, err |-> ErrDB]
       ELSE NextForgersFrom(best, minBidInfo, coordinators, currentSlot,
                            lastClosedSlot, TRUE, env)

\* API.GetNextForgers(lastBlock, currentSlot, lastClosedSlot)
GetNextForgers(bids, coordinators, currentSlot, lastClosedSlot, env) ==
    LET limit == lastClosedSlot - currentSlot + 1
        best == getBestBidsAPI(bids, coordinators, currentSlot, lastClosedSlot, limit)
    IN IF env = "getBestBidsAPI" THEN [rows |-> <<>>, err |-> ErrDB]
       ELSE NextForgersFrom(best, <<>>, coordinators, currentSlot, lastClosedSlot,
                            FALSE, env)

\* the next forgers are asked for, for the slots from the current one to the
\* last closed one: currentSlot + ClosedAuctionSlots
CallNextForgers(internal) ==
    /\ resp = NoResp
    /\ \E bids \in BidTables, coordinators \in CoordinatorTables,
          updates \in MinBidTables, currentSlot \in {1, 3}, closed \in {0, 2},
          env \in {"-", "getBestBidsAPI", "getMinBidInfo", "getCoordinatorAPI"} :
         /\ env = "-" \/ (Len(bids) = 1 /\ closed = 2)
         /\ LET lastClosedSlot == currentSlot + closed
                out == IF internal
                       THEN GetNextForgersInternalAPI(bids, coordinators, updates,
                                                      currentSlot, lastClosedSlot, env)
                       ELSE GetNextForgers(bids, coordinators, currentSlot,
                                           lastClosedSlot, env)
            IN resp' = [api |-> IF internal THEN "GetNextForgersInternalAPI"
                                ELSE "GetNextForgers",
                        bids |-> bids, coordinators |-> coordinators,
                        updates |-> updates, currentSlot |-> currentSlot,
                        lastClosedSlot |-> lastClosedSlot, env |-> env,
                        rows |-> out.rows, err |-> out.err]
    /\ UNCHANGED <<hItems, hNext, read, apiHeld, rd>>
    /\ UNCHANGED nonApiVars

\* the caller has taken the list
NextForgersTaken ==
    /\ resp # NoResp
    /\ resp' = NoResp
    /\ UNCHANGED <<hItems, hNext, read, apiHeld, rd>>
    /\ UNCHANGED nonApiVars

FgNext ==
    \/ \E internal \in BOOLEAN : CallNextForgers(internal)
    \/ NextForgersTaken

\* ===================================== Part VI: the rollup contract client
\* the other components' variables
nonEvVars == <<syncVars, coVars, selVars, bbVars, apiVars, cxVars, ppVars>>

ErrBlockHashMismatchEvent == "ErrBlockHashMismatchEvent"
ErrUnpack == "ErrUnpack"            \* contractAbi.Unpack, L1UserTxFromBytes

\* the block at a height before and after a reorganisation of the chain
BlockHashes == {"h1", "h2"}

\* var blockHash ethCommon.Hash
ZeroHash == "0x0"

\* what a log carries in Topics[1]: a queue number, a batch number
LogData == {1, 2}

\* a log of the contract: an event with data that unpacks or does not, or an
\* event whose data is not unpacked
Logs == [BlockHash : BlockHashes,
         Topic : {"L1UserTxEvent", "ForgeBatch"},
         Data : LogData,
         Unpacks : BOOLEAN] \
        {l \in [BlockHash : BlockHashes, Topic : {"ForgeBatch"}, Data : LogData,
                Unpacks : {FALSE}] : TRUE}

\* var rollupEvents RollupEvents: one slice per kind of event
NoEvents == [L1UserTx |-> <<>>, ForgeBatch |-> <<>>]

\* rollupEvents.<kind> = append(rollupEvents.<kind>, event of vLog)
AppendEvent(events, vLog) ==
    IF vLog.Topic = "L1UserTxEvent"
    THEN [events EXCEPT !.L1UserTx = Append(@, vLog)]
    ELSE [events EXCEPT !.ForgeBatch = Append(@, vLog)]

LogLists == UNION {[1..k -> Logs] : k \in 0..MaxLogs}

\* the hash the logs are compared with, lines 641-643
FirstHash(logs) == IF Len(logs) > 0 THEN logs[1].BlockHash ELSE ZeroHash

\* the loop over the logs, lines 644-709
RECURSIVE ScanLogs(_, _, _)
ScanLogs(logs, blockHash, events) ==
    IF logs = <<>>
    THEN [events |-> events, hash |-> blockHash, err |-> NoErr]
    ELSE LET vLog == Head(logs) IN
         IF vLog.BlockHash # blockHash
         THEN [events |-> NoEvents, hash |-> ZeroHash, err |-> ErrBlockHashMismatchEvent]
         ELSE IF vLog.Topic = "L1UserTxEvent" /\ ~vLog.Unpacks
         THEN [events |-> NoEvents, hash |-> ZeroHash, err |-> ErrUnpack]
         ELSE ScanLogs(Tail(logs), blockHash, AppendEvent(events, vLog))

NoCall == [block |-> ZeroHash, logs |-> <<>>, events |-> NoEvents, hash |-> ZeroHash,
           err |-> Running]

\* RollupClient.RollupEventsByBlock(blockNum), called for the block the
\* synchronizer is at; FilterLogs fails, or returns the logs the node holds at
\* that height now
RollupEventsByBlock(block, logs) ==
    /\ ev.err = Running
    /\ \E out \in {[events |-> NoEvents, hash |-> ZeroHash, err |-> ErrEth],
                   ScanLogs(logs, FirstHash(logs), NoEvents)} :
         ev' = [block |-> block, logs |-> logs, events |-> out.events,
                hash |-> out.hash, err |-> out.err]
    /\ UNCHANGED nonEvVars

\* the caller has taken what the call returned
EvTaken ==
    /\ ev.err # Running
    /\ ev' = NoCall
    /\ UNCHANGED nonEvVars

EvInit == ev = NoCall

EvNext ==
    \/ \E block \in BlockHashes, logs \in LogLists : RollupEventsByBlock(block, logs)
    \/ EvTaken


\* ============================== Part VII: transactions and their codecs
\* the other components' variables
nonCxVars == <<syncVars, coVars, selVars, bbVars, apiVars, evVars, ppVars>>

IdxUserThreshold == 256

\* an Idx is a uint64 of which the codecs take 48 bits; it is held as two
\* limbs of 24 bits, value hi * 2^24 + lo, hi above 24 bits past maxIdxValue
Limb24 == 16777216

Idx(hi, lo) == [hi |-> hi, lo |-> lo]

SmallIdx(n) == Idx(0, n)

\* tx.ToIdx >= IdxUserThreshold
IdxAtLeast(idx, n) == idx.hi > 0 \/ idx.lo >= n

\* n as k bytes, big endian
RECURSIVE BytesOf(_, _)
BytesOf(n, k) ==
    IF k = 0 THEN <<>> ELSE Append(BytesOf(n \div 256, k - 1), n % 256)

\* the number k bytes are, big endian
RECURSIVE NumOf(_)
NumOf(b) ==
    IF b = <<>> THEN 0 ELSE NumOf(SubSeq(b, 1, Len(b) - 1)) * 256 + b[Len(b)]

ErrIdxOverflow == "ErrIdxOverflow"
ErrIdxBytesLen == "ErrIdxBytesLen"
ErrRoundingLoss == "ErrRoundingLoss"
ErrInvalidToIdx == "ErrInvalidToIdx"
ErrTypeMismatch == "ErrTypeMismatch"
ErrTxIDMismatch == "ErrTxIDMismatch"

\* Idx.Bytes(): 6 bytes, big endian
IdxBytes(idx) ==
    IF idx.hi >= Limb24
    THEN [b |-> <<>>, err |-> ErrIdxOverflow]
    ELSE [b |-> BytesOf(idx.hi, 3) \o BytesOf(idx.lo, 3), err |-> NoErr]

\* IdxFromBytes(b)
IdxFromBytes(b) ==
    IF Len(b) # 6
    THEN [idx |-> SmallIdx(0), err |-> ErrIdxBytesLen]
    ELSE [idx |-> Idx(NumOf(SubSeq(b, 1, 3)), NumOf(SubSeq(b, 4, 6))), err |-> NoErr]

RECURSIVE Pow10(_)
Pow10(e) == IF e = 0 THEN 1 ELSE 10 * Pow10(e - 1)

\* Float16.BigInt(): 5 bits of exponent, the half-step bit, 10 bits of mantissa
Float16BigInt(fl) ==
    LET m == fl % 1024
        e == fl \div 2048
        e5 == (fl \div 1024) % 2
    IN m * Pow10(e) + (IF e5 # 0 /\ e # 0 THEN Pow10(e) \div 2 ELSE 0)

\* floorFix2Float: the mantissa is divided by 10 until it takes 10 bits
RECURSIVE FloorFix2Float(_, _)
FloorFix2Float(m, e) ==
    IF m \div 1024 = 0 THEN m + e * 2048 ELSE FloorFix2Float(m \div 10, e + 1)

Dist(a, b) == IF a >= b THEN a - b ELSE b - a

\* NewFloat16(f): the nearest of the float below, that float with the half
\* step, and the next float; an error unless it is f exactly
NewFloat16(f) ==
    LET fl1 == FloorFix2Float(f, 0)
        fl2 == IF (fl1 \div 1024) % 2 = 1 THEN fl1 ELSE fl1 + 1024
        m3 == (fl1 % 1024) + 1
        fl3 == IF m3 < 1024 THEN m3 + (fl1 \div 2048) * 2048
               ELSE 102 + ((fl1 \div 2048) + 1) * 2048
        d1 == Dist(Float16BigInt(fl1), f)
        d2 == Dist(Float16BigInt(fl2), f)
        d3 == Dist(Float16BigInt(fl3), f)
        r12 == IF d1 > d2 THEN fl2 ELSE fl1
        d12 == IF d1 > d2 THEN d2 ELSE d1
        res == IF d12 > d3 THEN fl3 ELSE r12
    IN [fl |-> res,
        err |-> IF Float16BigInt(res) = f THEN NoErr ELSE ErrRoundingLoss]

\* Float16.Bytes(): 2 bytes, big endian
Float16Bytes(fl) == BytesOf(fl, 2)

Float16FromBytes(b) == NumOf(b)

TxTypeExit == "Exit"
TxTypeTransfer == "Transfer"

\* TxID{}
ZeroTxID == <<>>

TxIDPrefixL2Tx == 2

\* L2Tx.SetType()
SetType(tx) ==
    IF tx.ToIdx = SmallIdx(1)
    THEN [tx |-> [tx EXCEPT !.Type = TxTypeExit], err |-> NoErr]
    ELSE IF IdxAtLeast(tx.ToIdx, IdxUserThreshold)
    THEN [tx |-> [tx EXCEPT !.Type = TxTypeTransfer], err |-> NoErr]
    ELSE [tx |-> tx, err |-> ErrInvalidToIdx]

\* L2Tx.CalculateTxID(): the prefix and the hash of the encoded fields; the
\* hash is held as the bytes it is taken of
CalculateTxID(tx) ==
    LET from == IdxBytes(tx.FromIdx)
        amount == NewFloat16(tx.Amount)
    IN IF from.err # NoErr THEN [id |-> ZeroTxID, err |-> from.err]
       ELSE IF amount.err # NoErr THEN [id |-> ZeroTxID, err |-> amount.err]
       ELSE [id |-> <<TxIDPrefixL2Tx>> \o from.b \o BytesOf(tx.TokenID, 4)
                    \o Float16Bytes(amount.fl) \o BytesOf(tx.Nonce, 5)
                    \o <<tx.Fee>>,
             err |-> NoErr]

\* nil *L2Tx
NilTx == [Type |-> "nil"]

\* NewL2Tx(tx) without the two comparisons
NewL2Tx_Unchecked(tx) ==
    LET typed == SetType(tx)
        txID == CalculateTxID(typed.tx)
    IN IF typed.err # NoErr THEN [tx |-> NilTx, err |-> typed.err]
       ELSE IF txID.err # NoErr THEN [tx |-> NilTx, err |-> txID.err]
       ELSE [tx |-> [typed.tx EXCEPT !.TxID = txID.id], err |-> NoErr]

\* NewL2Tx(tx)
NewL2Tx(tx) ==
    LET typed == SetType(tx) IN
    IF typed.err # NoErr THEN [tx |-> NilTx, err |-> typed.err]
    ELSE IF tx.Type # "" /\ tx.Type # typed.tx.Type
    THEN [tx |-> NilTx, err |-> ErrTypeMismatch]
    ELSE LET txID == CalculateTxID(typed.tx) IN
         IF txID.err # NoErr THEN [tx |-> NilTx, err |-> txID.err]
         ELSE IF tx.TxID # ZeroTxID /\ tx.TxID # txID.id
         THEN [tx |-> [typed.tx EXCEPT !.TxID = txID.id], err |-> ErrTxIDMismatch]
         ELSE [tx |-> [typed.tx EXCEPT !.TxID = txID.id], err |-> NoErr]

\* the last idxLen of the 6 bytes of an Idx: [6-idxLen:]
LowBytes_High(b, idxLen) == SubSeq(b, 1, idxLen)

LowBytes(b, idxLen) == SubSeq(b, 7 - idxLen, 6)

\* var padded [6]byte; copy(padded[6-idxLen:], b)
PadIdxBytes(b, idxLen) == [i \in 1..6 - idxLen |-> 0] \o b

\* L2Tx.BytesDataAvailability(nLevels): [ fromIdx | toIdx | amountFloat16 | Fee ];
\* 6-idxLen wraps around for an idxLen above 6 and the slice panics
BytesDataAvailability(tx, nLevels) ==
    LET idxLen == nLevels \div 8
        len == (nLevels * 2 + 16 + 8) \div 8
        from == IdxBytes(tx.FromIdx)
        to == IdxBytes(tx.ToIdx)
        amount == NewFloat16(tx.Amount)
    IN IF from.err # NoErr THEN [b |-> <<>>, err |-> from.err]
       ELSE IF idxLen > 6 THEN [b |-> <<>>, err |-> Panic]
       ELSE IF to.err # NoErr THEN [b |-> <<>>, err |-> to.err]
       ELSE IF amount.err # NoErr THEN [b |-> <<>>, err |-> amount.err]
       ELSE LET filled == LowBytes(from.b, idxLen) \o LowBytes(to.b, idxLen)
                          \o Float16Bytes(amount.fl) \o <<tx.Fee>>
            IN [b |-> filled \o [i \in 1..len - Len(filled) |-> 0], err |-> NoErr]

\* &L2Tx{}
ZeroTx == [TxID |-> ZeroTxID, FromIdx |-> SmallIdx(0), ToIdx |-> SmallIdx(0),
           TokenID |-> 0, Amount |-> 0, Fee |-> 0, Nonce |-> 0, Type |-> ""]

\* L2TxFromBytesDataAvailability(b, nLevels)
L2TxFromBytesDataAvailability(b, nLevels) ==
    LET idxLen == nLevels \div 8
        from == IdxFromBytes(PadIdxBytes(SubSeq(b, 1, idxLen), idxLen))
        to == IdxFromBytes(PadIdxBytes(SubSeq(b, idxLen + 1, idxLen * 2), idxLen))
    IN IF from.err # NoErr THEN [tx |-> NilTx, err |-> from.err]
       ELSE IF to.err # NoErr THEN [tx |-> NilTx, err |-> to.err]
       ELSE [tx |-> [ZeroTx EXCEPT
                       !.FromIdx = from.idx,
                       !.ToIdx = to.idx,
                       !.Amount = Float16BigInt(Float16FromBytes(
                                      SubSeq(b, idxLen * 2 + 1, idxLen * 2 + 2))),
                       !.Fee = b[idxLen * 2 + 3]],
             err |-> NoErr]

RollupConstL1UserTotalBytes == 72

ErrL1TxBytesLen == "ErrL1TxBytesLen"

\* a BabyJubJub public key: the sign of X, and Y as 32 bytes, little endian,
\* below the field's size, so with the top bit of the last byte clear
PublicKey(xSign, y) == [XSign |-> xSign, Y |-> y]

\* babyjub.PublicKey.Compress(): Y with the sign of X in the top bit
Compress(pk) == [pk.Y EXCEPT ![32] = @ + (IF pk.XSign THEN 128 ELSE 0)]

\* babyjub.PublicKeyComp.Decompress()
Decompress(b) == PublicKey(b[32] >= 128, [b EXCEPT ![32] = @ % 128])

\* the address and the key of TestL1TxByteParsers
TestEthAddr ==
    <<197, 141, 41, 250, 110, 134, 228, 250, 224, 77, 220, 237, 102, 13,
    69, 188, 243, 203, 35, 112>>

TestBJJ ==
    PublicKey(FALSE,
              <<86, 202, 144, 248, 13, 124, 55, 74, 231, 72, 94, 155, 204, 71, 212,
              172, 57, 148, 96, 148, 141, 166, 174, 235, 137, 147, 17, 9, 121, 37,
              167, 44>>)

EthAddrSamples == {TestEthAddr, [i \in 1..20 |-> 255]}

BJJSamples ==
    {TestBJJ} \cup
    {PublicKey(xs, [i \in 1..32 |-> IF i = 32 THEN 127 ELSE (a * i) % 256]) :
       xs \in BOOLEAN, a \in {0, 1, 255}}

\* uint8 addition
AddByte_Saturating(a, b) == IF a + b > 255 THEN 255 ELSE a + b

AddByte(a, b) == (a + b) % 256

\* sum := pkComp[0]; for i := 1; i < len(pkComp); i++ { sum += pkComp[i] }
RECURSIVE SumBytes(_)
SumBytes(b) ==
    IF Len(b) = 1 THEN b[1]
    ELSE AddByte(SumBytes(SubSeq(b, 1, Len(b) - 1)), b[Len(b)])

\* the alphabet of base64.RawURLEncoding
EncodeURL ==
    <<"A", "B", "C", "D", "E", "F", "G", "H", "I", "J", "K", "L", "M",
      "N", "O", "P", "Q", "R", "S", "T", "U", "V", "W", "X", "Y", "Z",
      "a", "b", "c", "d", "e", "f", "g", "h", "i", "j", "k", "l", "m",
      "n", "o", "p", "q", "r", "s", "t", "u", "v", "w", "x", "y", "z",
      "0", "1", "2", "3", "4", "5", "6", "7", "8", "9", "-", "_">>

\* base64.RawURLEncoding.EncodeToString: 3 bytes give 4 characters of 6 bits
\* each, a rest of 1 or 2 bytes gives 2 or 3 characters, with no padding
RECURSIVE EncodeToString(_)
EncodeToString(b) ==
    IF b = <<>> THEN <<>>
    ELSE IF Len(b) = 1
    THEN <<EncodeURL[b[1] \div 4 + 1], EncodeURL[(b[1] % 4) * 16 + 1]>>
    ELSE IF Len(b) = 2
    THEN <<EncodeURL[b[1] \div 4 + 1],
           EncodeURL[(b[1] % 4) * 16 + b[2] \div 16 + 1],
           EncodeURL[(b[2] % 16) * 4 + 1]>>
    ELSE <<EncodeURL[b[1] \div 4 + 1],
           EncodeURL[(b[1] % 4) * 16 + b[2] \div 16 + 1],
           EncodeURL[(b[2] % 16) * 4 + b[3] \div 64 + 1],
           EncodeURL[(b[3] % 64) + 1]>> \o EncodeToString(SubSeq(b, 4, Len(b)))

\* bjjToString(bjj); a string is the sequence of its characters
bjjToString(bjj) ==
    LET pkComp == Compress(bjj)
        sum == SumBytes(pkComp)
        bjjSum == Append(pkComp, sum)
    IN <<"h", "e", "z", ":">> \o EncodeToString(bjjSum)

L1TxLenOk_AtLeast(b) == Len(b) >= RollupConstL1UserTotalBytes

\* len(b) != 72
L1TxLenOk(b) == Len(b) = RollupConstL1UserTotalBytes

\* L1Tx.Bytes(): fromEthAddr, fromBjj-compressed, fromIdx, loadAmountFloat16,
\* amountFloat16, tokenId, toIdx
L1TxBytes(tx) ==
    LET from == IdxBytes(tx.FromIdx)
        loadAmount == NewFloat16(tx.LoadAmount)
        amount == NewFloat16(tx.Amount)
        to == IdxBytes(tx.ToIdx)
    IN IF from.err # NoErr THEN [b |-> <<>>, err |-> from.err]
       ELSE IF loadAmount.err # NoErr THEN [b |-> <<>>, err |-> loadAmount.err]
       ELSE IF amount.err # NoErr THEN [b |-> <<>>, err |-> amount.err]
       ELSE IF to.err # NoErr THEN [b |-> <<>>, err |-> to.err]
       ELSE [b |-> tx.FromEthAddr \o Compress(tx.FromBJJ) \o from.b
                   \o Float16Bytes(loadAmount.fl) \o Float16Bytes(amount.fl)
                   \o BytesOf(tx.TokenID, 4) \o to.b,
             err |-> NoErr]

\* nil *L1Tx
NilL1Tx == [TokenID |-> -1]

\* L1TxFromBytes(b)
L1TxFromBytes(b) ==
    IF ~L1TxLenOk(b) THEN [tx |-> NilL1Tx, err |-> ErrL1TxBytesLen]
    ELSE [tx |-> [FromEthAddr |-> SubSeq(b, 1, 20),
                  FromBJJ |-> Decompress(SubSeq(b, 21, 52)),
                  FromIdx |-> IdxFromBytes(SubSeq(b, 53, 58)).idx,
                  LoadAmount |-> Float16BigInt(Float16FromBytes(SubSeq(b, 59, 60))),
                  Amount |-> Float16BigInt(Float16FromBytes(SubSeq(b, 61, 62))),
                  TokenID |-> NumOf(SubSeq(b, 63, 66)),
                  ToIdx |-> IdxFromBytes(SubSeq(b, 67, 72)).idx],
          err |-> NoErr]

\* L1 user txs: that of TestL1TxByteParsers among them
L1Txs ==
    [FromEthAddr : EthAddrSamples, FromBJJ : BJJSamples,
     FromIdx : {SmallIdx(0), SmallIdx(2), Idx(255, 7), Idx(Limb24, 0)},
     LoadAmount : {2, 1024, 1025}, Amount : {0, 1, 1024},
     TokenID : {5, 16777217},
     ToIdx : {SmallIdx(0), SmallIdx(3), Idx(Limb24 - 1, Limb24 - 1)}]

\* the bytes given to the decoder: the encoder's, a part of them (66 in the
\* test, none), or one more
CutTo(b, n) == IF n <= Len(b) THEN SubSeq(b, 1, n) ELSE b \o [i \in 1..n - Len(b) |-> 0]

\* account indexes around the reserved ones, around the powers of 2 the
\* levels give, and past maxIdxValue
IdxSamples == {SmallIdx(0), SmallIdx(1), SmallIdx(2), SmallIdx(255),
               SmallIdx(256), SmallIdx(65536), Idx(1, 0), Idx(255, 7),
               Idx(256, 0), Idx(Limb24 - 1, Limb24 - 1), Idx(Limb24, 0)}

\* levels of the tree: the multiples of 8 the circuit takes, one that is not
\* a multiple of 8 and one above 48
NLevelsSamples == {0, 8, 16, 24, 32, 40, 48, 4, 56}

\* amounts a Float16 holds (1025 with the half step) and does not hold
AmountSamples == {0, 1023, 1024, 1025}

\* a TxID that is not that of any tx
OtherTxID == <<TxIDPrefixL2Tx>>

L2Txs ==
    [TxID : {ZeroTxID}, FromIdx : IdxSamples, ToIdx : IdxSamples, TokenID : {0},
     Amount : AmountSamples, Fee : {0, 255}, Nonce : {0},
     Type : {"", TxTypeExit, TxTypeTransfer}]

\* the tx with the TxID it was given by its maker: none, its own, another
WithTxID(tx, k) ==
    [tx EXCEPT !.TxID = IF k = 1 /\ CalculateTxID(tx).err = NoErr
                        THEN CalculateTxID(tx).id
                        ELSE IF k = 2 THEN OtherTxID ELSE ZeroTxID]

\* ---- the forgeBatch call and its arguments read back
RollupConstMaxFeeIdxCoordinator == 64

L1CoordinatorTxBytesLen == 101

ErrFeeIdxLen == "len(args.FeeIdxCoordinator) > 64"
ErrL1CoordinatorTxBytesLen == "ErrL1CoordinatorTxBytesLen"

\* a compressed signature: r, s and v, 65 bytes
Signature(r, s, v) == r \o s \o <<v>>

\* L1Tx.BytesCoordinatorTx(sig): v, r, s, fromBjj-compressed, tokenId
BytesCoordinatorTx(tx, sig) ==
    [b |-> <<sig[65]>> \o SubSeq(sig, 1, 32) \o SubSeq(sig, 33, 64)
           \o Compress(tx.FromBJJ) \o BytesOf(tx.TokenID, 4),
     err |-> NoErr]

\* L1CoordinatorTxFromBytes(b)
L1CoordinatorTxFromBytes(b) ==
    IF Len(b) # L1CoordinatorTxBytesLen
    THEN [tx |-> NilL1Tx, err |-> ErrL1CoordinatorTxBytesLen]
    ELSE [tx |-> [FromBJJ |-> Decompress(SubSeq(b, 66, 97)),
                  TokenID |-> NumOf(SubSeq(b, 98, 101))],
          err |-> NoErr]

\* the loop over args.L1CoordinatorTxs from the i-th on; an index past the
\* authorizations given panics
RECURSIVE EncodeL1CoordinatorTxs(_, _, _)
EncodeL1CoordinatorTxs(txs, txsAuths, i) ==
    IF i > Len(txs) THEN [b |-> <<>>, err |-> NoErr]
    ELSE IF i > Len(txsAuths) THEN [b |-> <<>>, err |-> Panic]
    ELSE LET one == BytesCoordinatorTx(txs[i], txsAuths[i])
             rest == EncodeL1CoordinatorTxs(txs, txsAuths, i + 1)
         IN IF one.err # NoErr THEN [b |-> <<>>, err |-> one.err]
            ELSE IF rest.err # NoErr THEN rest
            ELSE [b |-> one.b \o rest.b, err |-> NoErr]

\* the loop over args.L2TxsData from the i-th on
RECURSIVE EncodeL2TxsData(_, _, _)
EncodeL2TxsData(txs, nLevels, i) ==
    IF i > Len(txs) THEN [b |-> <<>>, err |-> NoErr]
    ELSE LET one == BytesDataAvailability(txs[i], nLevels)
             rest == EncodeL2TxsData(txs, nLevels, i + 1)
         IN IF one.err # NoErr THEN [b |-> <<>>, err |-> one.err]
            ELSE IF rest.err # NoErr THEN rest
            ELSE [b |-> one.b \o rest.b, err |-> NoErr]

\* the idx of the i-th slot, counted from 1
FeeIdxAt(idxs, i) == IF i <= Len(idxs) THEN idxs[i] ELSE SmallIdx(0)

FeeIdxSlot_High(b, lenBytes) == SubSeq(b, 1, lenBytes)

\* bytesFeeIdx[len(bytesFeeIdx)-int(lenBytes):]
FeeIdxSlot(b, lenBytes) == SubSeq(b, 7 - lenBytes, 6)

\* the loop over the RollupConstMaxFeeIdxCoordinator slots: it returns the
\* error of the first idx that has no bytes, and a lenBytes above 6 makes
\* the slice of the first slot panic
EncodeFeeIdxCoordinator(idxs, lenBytes) ==
    LET bytesFeeIdx == [i \in 1..RollupConstMaxFeeIdxCoordinator |->
                          IdxBytes(FeeIdxAt(idxs, i))]
        failed == {i \in 1..RollupConstMaxFeeIdxCoordinator :
                     bytesFeeIdx[i].err # NoErr}
        first == CHOOSE i \in failed : \A k \in failed : i <= k
    IN IF failed # {} /\ (first = 1 \/ lenBytes <= 6)
       THEN [b |-> <<>>, err |-> bytesFeeIdx[first].err]
       ELSE IF lenBytes > 6 THEN [b |-> <<>>, err |-> Panic]
       ELSE [b |-> [k \in 1..RollupConstMaxFeeIdxCoordinator * lenBytes |->
                      FeeIdxSlot(bytesFeeIdx[(k - 1) \div lenBytes + 1].b,
                                 lenBytes)[((k - 1) % lenBytes) + 1]],
             err |-> NoErr]

\* nothing was handed to the contract
NoAux == [EncodedL1CoordinatorTx |-> <<>>, L2TxsData |-> <<>>,
          FeeIdxCoordinator |-> <<>>]

NotSent(err) == [aux |-> NoAux, sent |-> FALSE, err |-> err]

\* RollupForgeBatch(args), with nLevels the levels of the verifier; env says
\* which call of the chain client fails, if any
RollupForgeBatch(args, nLevels, env) ==
    IF env = "RollupConstants" THEN NotSent(ErrEth)
    ELSE
    LET lenBytes == nLevels \div 8
        l1 == EncodeL1CoordinatorTxs(args.L1CoordinatorTxs,
                                     args.L1CoordinatorTxsAuths, 1)
        l2 == EncodeL2TxsData(args.L2TxsData, nLevels, 1)
        fee == EncodeFeeIdxCoordinator(args.FeeIdxCoordinator, lenBytes)
    IN IF l1.err # NoErr THEN NotSent(l1.err)
       ELSE IF l2.err # NoErr THEN NotSent(l2.err)
       ELSE IF Len(args.FeeIdxCoordinator) > RollupConstMaxFeeIdxCoordinator
       THEN NotSent(ErrFeeIdxLen)
       ELSE IF fee.err # NoErr THEN NotSent(fee.err)
       ELSE [aux |-> [EncodedL1CoordinatorTx |-> l1.b, L2TxsData |-> l2.b,
                      FeeIdxCoordinator |-> fee.b],
             sent |-> TRUE,
             err |-> IF env = "ForgeBatch" THEN ErrEth ELSE NoErr]

\* &rollupForgeBatchArgs with the four lists empty
NoArgs == [L1CoordinatorTxs |-> <<>>, L1CoordinatorTxsAuths |-> <<>>,
           L2TxsData |-> <<>>, FeeIdxCoordinator |-> <<>>]

\* the loop over the numTxsL1 txs from the i-th on, counted from 0
RECURSIVE DecodeL1CoordinatorTxs(_, _, _)
DecodeL1CoordinatorTxs(b, args, i) ==
    IF i >= Len(b) \div L1CoordinatorTxBytesLen THEN [args |-> args, err |-> NoErr]
    ELSE LET bytesL1Coordinator == SubSeq(b, i * L1CoordinatorTxBytesLen + 1,
                                          (i + 1) * L1CoordinatorTxBytesLen)
             v == bytesL1Coordinator[1]
             s == SubSeq(bytesL1Coordinator, 2, 33)
             r == SubSeq(bytesL1Coordinator, 34, 65)
             signature == r \o s \o <<v>>
             l1Tx == L1CoordinatorTxFromBytes(bytesL1Coordinator)
         IN IF l1Tx.err # NoErr THEN [args |-> NoArgs, err |-> l1Tx.err]
            ELSE DecodeL1CoordinatorTxs(b,
                   [args EXCEPT
                      !.L1CoordinatorTxs = Append(@, l1Tx.tx),
                      !.L1CoordinatorTxsAuths = Append(@, signature)],
                   i + 1)

\* the loop over the numTxsL2 txs from the i-th on, counted from 0
RECURSIVE DecodeL2TxsData(_, _, _, _)
DecodeL2TxsData(b, nLevels, args, i) ==
    LET lenL2TxsBytes == (nLevels \div 8) * 2 + 2 + 1 IN
    IF i >= Len(b) \div lenL2TxsBytes THEN [args |-> args, err |-> NoErr]
    ELSE LET l2Tx == L2TxFromBytesDataAvailability(
                       SubSeq(b, i * lenL2TxsBytes + 1, (i + 1) * lenL2TxsBytes),
                       nLevels)
         IN IF l2Tx.err # NoErr THEN [args |-> NoArgs, err |-> l2Tx.err]
            ELSE DecodeL2TxsData(b, nLevels,
                   [args EXCEPT !.L2TxsData = Append(@, l2Tx.tx)], i + 1)

FeeIdxKept_All(idx) == TRUE

\* feeIdxCoordinator != common.Idx(0)
FeeIdxKept(idx) == idx # SmallIdx(0)

\* var paddedFeeIdx [6]byte with the slot copied to its end, or to its start
\* when the slot has 6 bytes or more
PaddedFeeIdx(slot, lenBytes) ==
    IF lenBytes < 6 THEN PadIdxBytes(slot, lenBytes) ELSE SubSeq(slot, 1, 6)

\* the loop over the numFeeIdxCoordinator slots: it returns the error of the
\* first slot that is no idx, and appends the idxs that are not 0
DecodeFeeIdxCoordinator(b, lenBytes, args) ==
    LET numFeeIdxCoordinator == Len(b) \div lenBytes
        feeIdxCoordinator ==
          [i \in 1..numFeeIdxCoordinator |->
             IdxFromBytes(PaddedFeeIdx(SubSeq(b, (i - 1) * lenBytes + 1, i * lenBytes),
                                       lenBytes))]
        failed == {i \in 1..numFeeIdxCoordinator : feeIdxCoordinator[i].err # NoErr}
        first == CHOOSE i \in failed : \A k \in failed : i <= k
    IN IF failed # {} THEN [args |-> NoArgs, err |-> feeIdxCoordinator[first].err]
       ELSE [args |-> [args EXCEPT
                         !.FeeIdxCoordinator =
                            SelectSeq([i \in 1..numFeeIdxCoordinator |->
                                         feeIdxCoordinator[i].idx],
                                      FeeIdxKept)],
             err |-> NoErr]

\* RollupForgeBatchArgs(ethTxHash) for the tx that carried aux; a length of
\* 0 bytes for a slot makes the division panic
RollupForgeBatchArgs(aux, nLevels, env) ==
    IF env = "TransactionByHash" THEN [args |-> NoArgs, err |-> ErrEth]
    ELSE
    LET l1 == DecodeL1CoordinatorTxs(aux.EncodedL1CoordinatorTx, NoArgs, 0) IN
    IF l1.err # NoErr THEN l1
    ELSE
    LET l2 == DecodeL2TxsData(aux.L2TxsData, nLevels, l1.args, 0) IN
    IF l2.err # NoErr THEN l2
    ELSE IF nLevels \div 8 = 0 THEN [args |-> NoArgs, err |-> Panic]
    ELSE DecodeFeeIdxCoordinator(aux.FeeIdxCoordinator, nLevels \div 8, l2.args)

\* signatures: r and s differ, or are the same bytes
SigR == [i \in 1..32 |-> i]
SigS == [i \in 1..32 |-> 255 - i]

SigSamples == {Signature(SigR, SigS, 27), Signature(SigS, SigR, 28),
               Signature(SigR, SigR, 28)}

L1CoordinatorTxSamples ==
    [FromBJJ : {TestBJJ, PublicKey(TRUE, [i \in 1..32 |-> IF i = 32 THEN 127 ELSE i])},
     TokenID : {0, 5}]

\* no coordinator tx, one or two with their authorizations, and one with
\* none
ForgeL1Samples ==
    {<<<<>>, <<>>>>}
    \cup {<<<<t>>, <<a>>>> : t \in L1CoordinatorTxSamples, a \in SigSamples}
    \cup {<<<<t, [t EXCEPT !.TokenID = 5 - @]>>, <<a, b>>>> :
            t \in {x \in L1CoordinatorTxSamples : x.FromBJJ = TestBJJ},
            a \in {Signature(SigR, SigS, 27)}, b \in SigSamples}
    \cup {<<<<t>>, <<>>>> : t \in {x \in L1CoordinatorTxSamples : x.TokenID = 5}}

\* L2 txs of a batch: none, one, one with an amount no Float16 holds
ForgeL2Samples ==
    {<<>>,
     <<[ZeroTx EXCEPT !.FromIdx = SmallIdx(256), !.ToIdx = SmallIdx(257),
                      !.Amount = 1000, !.Fee = 1]>>,
     <<[ZeroTx EXCEPT !.FromIdx = SmallIdx(256), !.ToIdx = SmallIdx(257),
                      !.Amount = 1024]>>}

\* fee accounts: none, some, a slot of 0 among them, some that take more
\* than one and two bytes, all the slots, one too many, one past maxIdxValue
FeeIdxSamples ==
    {<<>>, <<SmallIdx(256)>>, <<SmallIdx(257), SmallIdx(256)>>,
     <<SmallIdx(256), SmallIdx(0), SmallIdx(257)>>,
     <<SmallIdx(3000)>>, <<SmallIdx(65536), Idx(255, 7)>>,
     [i \in 1..RollupConstMaxFeeIdxCoordinator |-> SmallIdx(255 + i)],
     [i \in 1..RollupConstMaxFeeIdxCoordinator + 1 |-> SmallIdx(255 + i)],
     <<Idx(Limb24, 0)>>}

\* levels of the verifier: multiples of 8, and some that are not, below 8
\* and above 48
ForgeNLevels == {0, 4, 8, 12, 16, 32, 48, 56}

NoCx == [op |-> "-"]

\* a call of NewL2Tx, and a second one with the tx the first returned
CallNewL2Tx ==
    /\ cx = NoCx
    /\ \E t \in L2Txs, k \in 0..2 :
         LET tx == WithTxID(t, k)
             out == NewL2Tx(tx)
         IN cx' = [op |-> "NewL2Tx", in |-> tx, out |-> out,
                   again |-> IF out.err = NoErr THEN NewL2Tx(out.tx)
                             ELSE [tx |-> NilTx, err |-> Running]]
    /\ UNCHANGED nonCxVars

\* a tx is encoded for the data availability and the bytes are decoded
CallDataAvailability ==
    /\ cx = NoCx
    /\ \E tx \in {t \in L2Txs : t.Type = ""}, nLevels \in NLevelsSamples :
         LET enc == BytesDataAvailability(tx, nLevels) IN
         cx' = [op |-> "BytesDataAvailability", in |-> tx, nLevels |-> nLevels,
                out |-> enc,
                back |-> IF enc.err = NoErr
                         THEN L2TxFromBytesDataAvailability(enc.b, nLevels)
                         ELSE [tx |-> NilTx, err |-> Running]]
    /\ UNCHANGED nonCxVars

\* an L1 user tx is encoded, bytes are decoded and the result is encoded
\* again
CallL1TxBytes ==
    /\ cx = NoCx
    /\ \E tx \in L1Txs, n \in {0, 66, RollupConstL1UserTotalBytes,
                               RollupConstL1UserTotalBytes + 1} :
         LET enc == L1TxBytes(tx)
             given == IF enc.err = NoErr THEN CutTo(enc.b, n) ELSE <<>>
             dec == L1TxFromBytes(given)
         IN cx' = [op |-> "L1TxBytes", in |-> tx, out |-> enc, given |-> given,
                   back |-> dec,
                   again |-> IF dec.err = NoErr THEN L1TxBytes(dec.tx)
                             ELSE [b |-> <<>>, err |-> Running]]
    /\ UNCHANGED nonCxVars

\* a key is put into its API form
CallBjjToString ==
    /\ cx = NoCx
    /\ \E bjj \in BJJSamples :
         cx' = [op |-> "bjjToString", in |-> bjj, out |-> bjjToString(bjj)]
    /\ UNCHANGED nonCxVars

\* a batch is forged and the arguments of its tx are read back; a call of
\* the chain client fails whatever the arguments are
CallForgeBatch ==
    /\ cx = NoCx
    /\ \E l1 \in ForgeL1Samples, l2 \in ForgeL2Samples, fee \in FeeIdxSamples,
          nLevels \in ForgeNLevels,
          env \in {"-", "RollupConstants", "ForgeBatch", "TransactionByHash"} :
         /\ env = "-" \/ (l2 = <<>> /\ nLevels = 32)
         /\ LET args == [L1CoordinatorTxs |-> l1[1], L1CoordinatorTxsAuths |-> l1[2],
                      L2TxsData |-> l2, FeeIdxCoordinator |-> fee]
                out == RollupForgeBatch(args, nLevels, env)
            IN cx' = [op |-> "RollupForgeBatch", in |-> args, nLevels |-> nLevels,
                      env |-> env, out |-> out,
                      back |-> IF out.err = NoErr
                               THEN RollupForgeBatchArgs(out.aux, nLevels, env)
                               ELSE [args |-> NoArgs, err |-> Running]]
    /\ UNCHANGED nonCxVars

\* the caller has taken what the call returned
CxTaken ==
    /\ cx # NoCx
    /\ cx' = NoCx
    /\ UNCHANGED nonCxVars

CxInit == cx = NoCx

CxNext ==
    \/ CallNewL2Tx
    \/ CallDataAvailability
    \/ CallL1TxBytes
    \/ CallBjjToString
    \/ CallForgeBatch
    \/ CxTaken

\* the pool with its maintenance: txs come in, are selected and marked, and
\* their batches are forged or fail
PoolNext ==
    \/ \E u \in Senders, n \in 0..MaxPool : AddTx(u, n)
    \/ \E u \in {Receiver(s) : s \in Senders} : AddAccountCreationAuth(u)
    \/ GetL1L2TxSelection(<<>>)
    \/ StartForging
    \/ \E b \in 1..selBatch : DoneForging(TxsOfBatch(b) \cup PendingTxs(pool), b)
    \/ \E e \in pool : InvalidateTxs({e.Tx})
    \/ \E b \in 1..selBatch : RollbackForging(b)

\* ============================================ Part VIII: the pool of provers
\* the other components' variables
nonPpVars == <<syncVars, coVars, selVars, bbVars, apiVars, evVars, cxVars>>

\* NewProversPool(maxServerProofs): the capacity of the channel
MaxServerProofs == 2

\* the prover clients of the coordinator, one more than the pool takes
Provers == 1..MaxServerProofs + 1

\* the goroutines that take provers and give them back
Holders == {1, 2}

ErrDone == "ErrDone"

NoPpCall == [op |-> "-"]

\* p.pool <- serverProof is ready
CanSend_Always(q) == TRUE

CanSend(q) == Len(q) < MaxServerProofs

\* the channel after serverProof := <-p.pool
Receive_Peek(q) == q

Receive(q) == Tail(q)

\* ProversPool.Add(ctx, serverProof) by a holder of the prover, or with a
\* prover not added yet: the select takes a case that is ready, the send or
\* ctx.Done(), and blocks while none is
Add(h, serverProof) ==
    /\ serverProof \in pp.held[h] \cup pp.fresh
    /\ \/ /\ CanSend(pp.pool)
          /\ pp' = [pp EXCEPT !.pool = Append(@, serverProof),
                              !.held[h] = @ \ {serverProof},
                              !.fresh = @ \ {serverProof},
                              !.last = [op |-> "Add", h |-> h,
                                        prover |-> serverProof, sent |-> TRUE]]
       \/ /\ pp.done
          /\ pp' = [pp EXCEPT !.held[h] = @ \ {serverProof},
                              !.fresh = @ \ {serverProof},
                              !.last = [op |-> "Add", h |-> h,
                                        prover |-> serverProof, sent |-> FALSE]]
    /\ UNCHANGED nonPpVars

\* ProversPool.Get(ctx): the select takes a case that is ready, ctx.Done()
\* or the receive, and blocks while none is
Get(h) ==
    /\ \/ /\ pp.done
          /\ pp' = [pp EXCEPT !.last = [op |-> "Get", h |-> h, prover |-> 0,
                                        err |-> ErrDone]]
       \/ /\ pp.pool # <<>>
          /\ pp' = [pp EXCEPT !.pool = Receive(@),
                              !.held[h] = @ \cup {Head(pp.pool)},
                              !.last = [op |-> "Get", h |-> h,
                                        prover |-> Head(pp.pool),
                                        err |-> NoErr]]
    /\ UNCHANGED nonPpVars

\* the context of the coordinator is cancelled
Cancel ==
    /\ ~pp.done
    /\ pp' = [pp EXCEPT !.done = TRUE, !.last = NoPpCall]
    /\ UNCHANGED nonPpVars

PpInit ==
    pp = [pool |-> <<>>, held |-> [h \in Holders |-> {}], fresh |-> Provers,
          done |-> FALSE, last |-> NoPpCall]

PpNext ==
    \/ \E h \in Holders, serverProof \in Provers : Add(h, serverProof)
    \/ \E h \in Holders : Get(h)
    \/ Cancel

\* ============================================================ specifications
Init ==
    SyncInit /\ CoInit /\ SelInit /\ BBInit /\ APIInit /\ EvInit /\ CxInit /\ PpInit

\* the synchronizer with its stores and chain
Next == SyncNext

Spec == Init /\ [][Next]_vars

\* the goroutine that runs Sync holds the mutex and waits for nothing: it
\* takes its next step
SpecSyncFair == Init /\ [][Next]_vars /\ \A t \in Threads : WF_vars(SyncSteps(t))

\* the synchronizer on a chain whose head is block blocksToSync
InitYoung ==
    SyncInitAt(blocksToSync) /\ CoInit /\ SelInit /\ BBInit /\ APIInit /\ EvInit
    /\ CxInit /\ PpInit

SpecYoung == InitYoung /\ [][Next]_vars

\* the coordinator loop
InitCoord == Init /\ hdbBlocks = {}

SpecCoord == InitCoord /\ [][CoNext]_vars

\* the transaction selector
InitSel == Init /\ sdbBatch <= 1

SpecSel == InitSel /\ [][SelNext]_vars

\* the pool starts with the senders' accounts synchronized
InitPool == Init /\ sdbBatch = 1

SpecPool == InitPool /\ [][PoolNext]_vars

\* the batch builders over a synchronized state DB
InitBB == Init /\ sdbBatch = MaxBatch

SpecBB == InitBB /\ [][BBNext]_vars

\* paginated reads of a table of the history store
SpecPag == InitCoord /\ [][PagNext]_vars

\* concurrent API reads over the semaphore
SpecAPI == InitCoord /\ [][APINext]_vars

\* calls of the rollup contract client
SpecEv == InitCoord /\ [][EvNext]_vars

\* the selector over accounts that pay each other
InitBal ==
    /\ SyncInit /\ sdbBatch = 1 /\ Cardinality(hdbBlocks) = MinHead
    /\ CoInit /\ BalInit /\ BBInit /\ APIInit /\ EvInit /\ CxInit /\ PpInit

SpecBal == InitBal /\ [][BalNext]_vars

\* constructors and codecs of the transactions
SpecCx == InitCoord /\ [][CxNext]_vars

\* the next forgers over the tables of the history store
SpecFg == InitCoord /\ [][FgNext]_vars

\* goroutines over the pool of provers
SpecPp == InitCoord /\ [][PpNext]_vars

\* ================================================ claims: coordinator loop
\* the step sends a forge transaction
Submits == Len(coSubs') = Len(coSubs) + 1

\* C9: the loop never submits a forge transaction while a batch it submitted
\* earlier is unresolved: at every submission each earlier submission has been
\* confirmed by the synchronizer or declared dead, so at most the last
\* submission is ever pending.
C9_NoSubmitWhileUnresolved ==
    /\ [](\A i \in 1..Len(coSubs) - 1 : coSubs[i].Status \in {"confirmed", "dead"})
    /\ [][Submits => Unresolved(coSubs) = {}]_vars

\* a batch was submitted again after a dead attempt, and a third one after a
\* confirmed one is in flight
C9_Witness ==
    /\ Len(coSubs) = 3
    /\ coSubs[1].Status = "dead"
    /\ coSubs[2].Status = "confirmed"
    /\ coSubs[3].Status = "pending"
    /\ coSubs[3].BatchNum = coSubs[2].BatchNum + 1

\* ============================================ claims: transaction selector
BatchSize(out) == Len(out.l2Txs) + Len(out.l1UserTxs) + Len(out.l1CoordinatorTxs)

Selects == selBatch' = selBatch + 1

\* the account of a sender in accs: its nonce, 0 when there is no account
NonceIn(accs, u) ==
    LET pos == AccountPos(accs, u, SendToken(u)) IN
    IF pos = 0 THEN 0 ELSE accs[pos].Nonce

\* nonces of the sender's pool txs that a selection has returned so far
SelectedNonces(u) ==
    {e.Tx.Nonce : e \in {x \in pool : /\ x.Tx.From = u
                                      /\ \/ x.State # "pending"
                                         \/ \E i \in 1..Len(selOut.l2Txs) :
                                              selOut.l2Txs[i] = x.Tx}}

\* C11: in every selection output each selected L2 tx carries its sender's
\* nonce before the batch plus the number of the sender's txs selected before
\* it in the output; over successive selections the nonces selected from a
\* sender are 0, 1, 2, ... with no gap and no repeat.
C11_NonceRule ==
    /\ [](\A u \in Senders : SelectedNonces(u) = 0..NonceIn(selAccounts, u) - 1)
    /\ [][Selects =>
            LET before == ProcessL1Txs(selAccounts, selOut'.l1UserTxs)
                txs == selOut'.l2Txs
            IN \A i \in 1..Len(txs) :
                 /\ HasAccount(before, txs[i].From, txs[i].TokenID)
                 /\ txs[i].Nonce = NonceIn(before, txs[i].From)
                                   + CountBy(SubSeq(txs, 1, i - 1),
                                             txs[i].From, txs[i].TokenID)
                 /\ txs[i].Nonce \notin SelectedNonces(txs[i].From)]_vars

\* a selection continues a sender's run with two txs, and leaves in the pool
\* a pending tx of that sender that lies beyond a gap
C11_Witness ==
    /\ selOut.err = NoErr
    /\ Len(selOut.l2Txs) >= 2
    /\ selOut.l2Txs[1].Nonce >= 1
    /\ selOut.l2Txs[2].From = selOut.l2Txs[1].From
    /\ \E e \in pool :
         /\ e.State = "pending"
         /\ e.Tx.From = selOut.l2Txs[1].From
         /\ e.Tx.Nonce > NonceIn(selAccounts, e.Tx.From)

\* the processor applies every tx of the list, run in order from accs
RECURSIVE AllApplied(_, _)
AllApplied(accs, txs) ==
    \/ txs = <<>>
    \/ /\ Applies(accs, Head(txs))
       /\ AllApplied(ProcessL2Tx(accs, Head(txs)), Tail(txs))

\* C12: processing the output of a selection (L1 user txs, coordinator L1
\* txs, then the L2 txs in output order) from the state the selection started
\* from applies every selected L2 tx; no selected tx has a sender whose
\* balance at selection time is below amount plus fee.
C12_SelectorSoundness ==
    selOut.err = NoErr =>
      LET afterUser == ProcessL1Txs(selOut.snapshot, selOut.l1UserTxs)
          afterL1 == ProcessL1Txs(afterUser, selOut.l1CoordinatorTxs)
          txs == selOut.l2Txs
      IN /\ AllApplied(afterL1, txs)
         /\ \A i \in 1..Len(txs) :
              afterUser[AccountPos(afterUser, txs[i].From, txs[i].TokenID)].Balance
                >= txs[i].Amount + txs[i].Fee
         /\ selAccounts = ProcessL2Txs(afterL1, txs)

\* a selection took txs of a sender and left out its next tx, which the
\* balance left no longer covers
C12_Witness ==
    /\ selOut.err = NoErr
    /\ selOut.l2Txs # <<>>
    /\ \E e \in pool :
         LET pos == AccountPos(selAccounts, e.Tx.From, e.Tx.TokenID) IN
         /\ e.State = "pending"
         /\ e.Tx.From = selOut.l2Txs[Len(selOut.l2Txs)].From
         /\ pos # 0
         /\ e.Tx.Nonce = selAccounts[pos].Nonce
         /\ selAccounts[pos].Balance > 0
         /\ selAccounts[pos].Balance < e.Tx.Amount + e.Tx.Fee

\* the coordinator L1 tx creates a fee account of the coordinator
ForFees(tx) == tx.FromEthAddr = CoordUser

\* the selection created accounts of both kinds
C13_BothKinds ==
    /\ selOut.err = NoErr
    /\ \E i \in 1..Len(selOut.l1CoordinatorTxs) : ForFees(selOut.l1CoordinatorTxs[i])
    /\ \E i \in 1..Len(selOut.l1CoordinatorTxs) : ~ForFees(selOut.l1CoordinatorTxs[i])

\* C13: in l1CoordinatorTxs and the parallel accountCreationAuths the txs
\* creating the accounts of the selected L2 txs' counterparties come first and
\* the txs creating the coordinator's own fee accounts come after them.
C13_CounterpartyAccountsFirst ==
    LET txs == selOut.l1CoordinatorTxs IN
    /\ selOut.accAuths = AuthsFor(txs)
    /\ \A i \in 1..Len(txs) : \A j \in 1..Len(txs) :
         ForFees(txs[i]) /\ ~ForFees(txs[j]) => j < i

\* what the code does: the coordinator's fee accounts come first, the
\* counterparties' accounts after them; the auths are parallel to the txs, and
\* every account a selected L2 tx needs exists once the L1 txs are processed
C13_FeeAccountsFirst ==
    LET txs == selOut.l1CoordinatorTxs IN
    /\ selOut.accAuths = AuthsFor(txs)
    /\ \A i \in 1..Len(txs) : \A j \in 1..Len(txs) :
         ForFees(txs[i]) /\ ~ForFees(txs[j]) => i < j
    /\ selOut.err = NoErr =>
         \A k \in 1..Len(selOut.l2Txs) :
           /\ HasAccount(selAccounts, selOut.l2Txs[k].To, selOut.l2Txs[k].TokenID)
           /\ HasAccount(selAccounts, CoordUser, selOut.l2Txs[k].TokenID)

\* the state of tx in pool p, "none" if p does not hold it
StateIn(p, tx) ==
    IF \E e \in p : e.Tx = tx
    THEN (CHOOSE e \in p : e.Tx = tx).State
    ELSE "none"

\* C14: a pool tx is pending right after its ingress; it becomes forged only
\* from forging, where StartForging put it with a batch number, and invalid
\* only from pending: no step takes a tx from pending to forged or from
\* forging to invalid.
C14_PoolLifecycle ==
    /\ [](\A e \in pool : e.State = "forging" => e.BatchNum \in 1..selBatch)
    /\ [][\A e \in pool' :
            LET before == StateIn(pool, e.Tx) IN
            /\ before = "none" => e.State = "pending"
            /\ e.State = "forged" => before \in {"forging", "forged"}
            /\ e.State = "invalid" => before \in {"pending", "invalid"}
            /\ e.State = "forging" /\ before # "forging" =>
                 before = "pending" /\ e.BatchNum = selBatch]_vars

\* the pool holds a forged tx, an invalidated one and a pending one while a
\* batch was forged with a tx pending
C14_Witness ==
    /\ \E e \in pool : e.State = "forged" /\ e.BatchNum # 0
    /\ \E e \in pool : e.State = "invalid"
    /\ \E e \in pool : e.State = "pending"

\* C15: after a state DB Reset(N) the current batch and root are those of
\* checkpoint N and no checkpoint above N exists; a LocalStateDB.Reset, with
\* fromSynchronizer true or false, as BatchBuilder.Reset does it, leaves the
\* main state DB's current batch, root and checkpoints as they were.
C15_Reset ==
    [][\A f \in Builders, n \in 0..MaxBatch + MaxLocalBatch, s \in BOOLEAN :
         BBReset(f, n, s) /\ HasCheckpoint(bb[f], n, s) =>
           /\ bb'[f].batch = n
           /\ Root(bb'[f].accounts) = Root(CheckpointOf(bb[f], n, s))
           /\ \A k \in DOMAIN bb'[f].cps : k <= n
           /\ n # 0 => n \in DOMAIN bb'[f].cps /\ bb'[f].cps[n] = bb'[f].accounts
           /\ sdbBatch' = sdbBatch
           /\ sdbCheckpoints' = sdbCheckpoints
           /\ Root(CheckpointAccounts(sdbBatch')) = Root(CheckpointAccounts(sdbBatch))]_vars

\* one builder was rolled back to a checkpoint of its own, below a batch it
\* had built, the other was reset to a checkpoint of the synchronizer
C15_Witness ==
    \E f \in Builders, g \in Builders :
      /\ bbFed[f].fed = <<>> /\ bbFed[g].fed = <<>>
      /\ bb[f].batch # 0 /\ bb[g].batch # 0
      /\ bb[f].accounts # CheckpointAccounts(bb[f].batch)
      /\ bb[g].accounts = CheckpointAccounts(bb[g].batch)
      /\ bb[g].batch < sdbBatch

C17_PendingItems ==
    resp.err = NoErr =>
      /\ Len(resp.rows) <= resp.matching
      /\ resp.pendingItems = ToUint64(resp.matching - Len(resp.rows))

\* what the code does: the claim holds of every query but GetTokensAPI, which
\* subtracts the other way round
C17_PendingItemsButTokens ==
    resp.err = NoErr =>
      /\ Len(resp.rows) <= resp.matching
      /\ resp.api # "GetTokensAPI" =>
           resp.pendingItems = ToUint64(resp.matching - Len(resp.rows))
      /\ resp.api = "GetTokensAPI" =>
           resp.pendingItems = SubUint64(ToUint64(Len(resp.rows)), ToUint64(resp.matching))

\* the items of a sequence
Range(q) == {q[i] : i \in 1..Len(q)}

\* C18: with no writes in between, reading a filter page by page in ascending
\* order, each request from the last item_id + 1 with the same limit, until
\* pendingItems is 0, returns every matching row once, in increasing item_id,
\* and pendingItems is 0 exactly on the page with the last matching row.
C18_PaginationStability ==
    read.state # "none" =>
      /\ \A i \in 1..Len(read.got) - 1 : read.got[i] < read.got[i + 1]
      /\ Range(read.got) \subseteq hItems
      /\ \A i \in hItems : i \in Range(read.got)
                           \/ \A j \in Range(read.got) : j < i
      /\ read.state = "done" <=> Range(read.got) = hItems

\* a read of more than one page ended: the rows have gaps in their item_id
C18_Witness ==
    /\ read.state = "done"
    /\ Len(read.got) > read.limit
    /\ \E i \in 1..Len(read.got) - 1 : read.got[i + 1] > read.got[i] + 1

\* permits held by the reads in progress
RECURSIVE HeldBy(_)
HeldBy(R) ==
    IF R = {} THEN 0
    ELSE LET r == CHOOSE x \in R : TRUE
         IN (rd[r].acquired - rd[r].released) + HeldBy(R \ {r})

\* C19: every API read releases the permit it acquired once, on every exit
\* path (success, SQL error, incompatible arguments); a read whose Acquire
\* failed releases nothing; so with all reads returned no permit is held, and
\* the permits held never exceed the semaphore's bound.
C19_Semaphore ==
    /\ apiHeld = HeldBy(Readers)
    /\ apiHeld \in 0..MaxAPIConns
    /\ \A r \in Readers :
         /\ rd[r].acquired \in 0..1
         /\ rd[r].released <= rd[r].acquired
         /\ rd[r].pc = "done" => rd[r].released = rd[r].acquired
         /\ rd[r].err = ErrTimeout => rd[r].acquired = 0 /\ rd[r].released = 0
    /\ (\A r \in Readers : rd[r].pc \in {"idle", "done"}) => apiHeld = 0

\* reads have returned on an SQL error, on the argument error with and
\* without a permit, and on a failed Acquire
C19_Witness ==
    /\ \A r \in Readers : rd[r].pc = "done"
    /\ \E r \in Readers : rd[r].err \in {ErrDB, ErrIncompatible} /\ rd[r].released = 1
    /\ \E r \in Readers : rd[r].err \in {ErrTimeout, ErrIncompatible} /\ rd[r].acquired = 0

\* the events of a result, of every kind
AllEvents(events) == Range(events.L1UserTx) \cup Range(events.ForgeBatch)

\* C20: RollupEventsByBlock rejects a block whose logs do not all carry the
\* block's hash: if a log returned for the block number has a block hash other
\* than that of the block being synced, it returns ErrBlockHashMismatchEvent
\* and no events; on success every event comes from a log with the returned
\* block hash.
C20_RejectsHashMismatch ==
    ev.err \notin {Running, ErrEth} =>
      /\ (\E i \in 1..Len(ev.logs) : ev.logs[i].BlockHash # ev.block) =>
           ev.err = ErrBlockHashMismatchEvent /\ ev.events = NoEvents
      /\ ev.err = NoErr =>
           \A e \in AllEvents(ev.events) : e.BlockHash = ev.hash

\* what the code does: the logs are compared with the hash of the first log;
\* logs that disagree among themselves are rejected, unless a log before the
\* first that differs fails to unpack; on success every log gave an event, all
\* with the returned hash, which need not be that of the block being synced
C20_RejectsMixedLogs ==
    ev.err \notin {Running, ErrEth} =>
      /\ (\E i \in 1..Len(ev.logs) : ev.logs[i].BlockHash # ev.logs[1].BlockHash) =>
           ev.err \in {ErrBlockHashMismatchEvent, ErrUnpack} /\ ev.events = NoEvents
      /\ ev.err = NoErr =>
           /\ AllEvents(ev.events) = Range(ev.logs)
           /\ ev.hash = FirstHash(ev.logs)
           /\ \A e \in AllEvents(ev.events) : e.BlockHash = ev.hash

\* the call succeeded with events of another block than the one being synced
C20_OtherBlock ==
    /\ ev.err = NoErr
    /\ ev.events # NoEvents
    /\ ev.hash # ev.block

\* the logs in another order
Reordered(logs, f) == [i \in 1..Len(logs) |-> logs[f[i]]]

OfKind(topic, vLog) == vLog.Topic = topic

IsL1UserTx(vLog) == OfKind("L1UserTxEvent", vLog)

IsForgeBatch(vLog) == OfKind("ForgeBatch", vLog)

\* C21: within a block the rollup events are handed on in on-chain log
\* order: the result of a successful RollupEventsByBlock fixes the order of
\* any two logs of the block, of the same kind or of different kinds, so no
\* other order of the same logs gives the same result.
C21_LogOrder ==
    ev.err = NoErr =>
      \A f \in Permutations(1..Len(ev.logs)) :
        LET other == Reordered(ev.logs, f) IN
        ScanLogs(other, FirstHash(other), NoEvents).events = ev.events
          => other = ev.logs

\* what the code does: the events of one kind keep the order of their logs;
\* the result holds one slice per kind and nothing that orders two events of
\* different kinds
C21_LogOrderWithinKind ==
    ev.err = NoErr =>
      /\ ev.events.L1UserTx = SelectSeq(ev.logs, IsL1UserTx)
      /\ ev.events.ForgeBatch = SelectSeq(ev.logs, IsForgeBatch)

\* a block with an L1UserTx before a ForgeBatch and one with the two the
\* other way round give the same result
C21_MixedKinds ==
    /\ ev.err = NoErr
    /\ Len(ev.logs) >= 2
    /\ IsL1UserTx(ev.logs[1])
    /\ IsForgeBatch(ev.logs[2])
    /\ ev.events.L1UserTx # <<>>
    /\ ev.events.ForgeBatch # <<>>

\* C22: every L2Tx that NewL2Tx returns without error has FromIdx >= 256 and
\* ToIdx = 1 or ToIdx >= 256; its Type is Exit exactly when ToIdx = 1 and
\* Transfer exactly when ToIdx >= 256; a ToIdx of 0 or in 2..255 is an error.
C22_NewL2Tx ==
    cx.op = "NewL2Tx" =>
      /\ cx.out.err = NoErr =>
           /\ IdxAtLeast(cx.out.tx.FromIdx, IdxUserThreshold)
           /\ cx.out.tx.ToIdx = SmallIdx(1)
              \/ IdxAtLeast(cx.out.tx.ToIdx, IdxUserThreshold)
           /\ cx.out.tx.Type = TxTypeExit <=> cx.out.tx.ToIdx = SmallIdx(1)
           /\ cx.out.tx.Type = TxTypeTransfer
                <=> IdxAtLeast(cx.out.tx.ToIdx, IdxUserThreshold)
      /\ (cx.in.ToIdx # SmallIdx(1) /\ ~IdxAtLeast(cx.in.ToIdx, IdxUserThreshold))
           => cx.out.err # NoErr

\* what the code does: the claim without the bound on FromIdx, which
\* NewL2Tx does not look at beyond its taking 48 bits
C22_NewL2TxToIdx ==
    cx.op = "NewL2Tx" =>
      /\ cx.out.err = NoErr =>
           /\ cx.out.tx.FromIdx.hi < Limb24
           /\ cx.out.tx.ToIdx = SmallIdx(1)
              \/ IdxAtLeast(cx.out.tx.ToIdx, IdxUserThreshold)
           /\ cx.out.tx.Type = TxTypeExit <=> cx.out.tx.ToIdx = SmallIdx(1)
           /\ cx.out.tx.Type = TxTypeTransfer
                <=> IdxAtLeast(cx.out.tx.ToIdx, IdxUserThreshold)
           /\ cx.out.tx.TxID = CalculateTxID(cx.in).id
      /\ (cx.in.ToIdx # SmallIdx(1) /\ ~IdxAtLeast(cx.in.ToIdx, IdxUserThreshold))
           => cx.out.err = ErrInvalidToIdx /\ cx.out.tx = NilTx

\* NewL2Tx has returned, without error, a transfer from a reserved index
C22_ReservedFrom ==
    /\ cx.op = "NewL2Tx"
    /\ cx.out.err = NoErr
    /\ cx.out.tx.Type = TxTypeTransfer
    /\ cx.out.tx.FromIdx = SmallIdx(1)

RECURSIVE Pow2(_)
Pow2(e) == IF e = 0 THEN 1 ELSE 2 * Pow2(e - 1)

\* idx < 2^nLevels, for nLevels up to 48
IdxBelow(idx, nLevels) ==
    IF nLevels <= 24 THEN idx.hi = 0 /\ idx.lo < Pow2(nLevels)
    ELSE idx.hi < Pow2(nLevels - 24)

\* the amounts a Float16 is the exact form of: 10 bits times a power of 10,
\* with half that power added or not
Representable(amount) ==
    \E e \in 0..6 :
      LET half == Pow10(e) \div 2 IN
      \/ amount % Pow10(e) = 0 /\ amount \div Pow10(e) < 1024
      \/ /\ e # 0 /\ amount >= half
         /\ (amount - half) % Pow10(e) = 0
         /\ (amount - half) \div Pow10(e) < 1024

\* C23: for nLevels a multiple of 8 up to 48, FromIdx and ToIdx below
\* 2^nLevels, an amount a Float16 holds exactly and any Fee,
\* BytesDataAvailability returns 2*(nLevels/8)+3 bytes, FromIdx, ToIdx,
\* AmountF16 and Fee in this order, and L2TxFromBytesDataAvailability gives
\* back the same FromIdx, ToIdx, Amount and Fee; an amount that no Float16
\* holds exactly makes the encoder fail.
C23_DataAvailabilityRoundTrip ==
    (/\ cx.op = "BytesDataAvailability"
     /\ cx.nLevels % 8 = 0 /\ cx.nLevels <= 48
     /\ IdxBelow(cx.in.FromIdx, cx.nLevels)
     /\ IdxBelow(cx.in.ToIdx, cx.nLevels)) =>
       LET idxLen == cx.nLevels \div 8
           b == cx.out.b
       IN IF Representable(cx.in.Amount)
          THEN /\ cx.out.err = NoErr
               /\ Len(b) = 2 * idxLen + 3
               /\ IdxBytes(cx.in.FromIdx).b = PadIdxBytes(SubSeq(b, 1, idxLen), idxLen)
               /\ IdxBytes(cx.in.ToIdx).b
                    = PadIdxBytes(SubSeq(b, idxLen + 1, 2 * idxLen), idxLen)
               /\ Float16BigInt(NumOf(SubSeq(b, 2 * idxLen + 1, 2 * idxLen + 2)))
                    = cx.in.Amount
               /\ b[2 * idxLen + 3] = cx.in.Fee
               /\ cx.back.err = NoErr
               /\ cx.back.tx.FromIdx = cx.in.FromIdx
               /\ cx.back.tx.ToIdx = cx.in.ToIdx
               /\ cx.back.tx.Amount = cx.in.Amount
               /\ cx.back.tx.Fee = cx.in.Fee
          ELSE cx.out.err # NoErr

\* a tx with indexes of 6 bytes and an amount with the half step was encoded
\* at 48 levels and decoded
C23_Witness ==
    /\ cx.op = "BytesDataAvailability"
    /\ cx.nLevels = 48
    /\ cx.in.FromIdx = Idx(Limb24 - 1, Limb24 - 1)
    /\ cx.in.ToIdx = Idx(255, 7)
    /\ cx.in.Amount = 1025
    /\ cx.in.Fee = 255
    /\ cx.back.err = NoErr
    /\ Len(cx.out.b) = 15

SextetOf(c) == (CHOOSE i \in 1..64 : EncodeURL[i] = c) - 1

\* the bytes that unpadded base64 characters stand for
RECURSIVE DecodeString(_)
DecodeString(str) ==
    IF Len(str) < 2 THEN <<>>
    ELSE LET s1 == SextetOf(str[1])
             s2 == SextetOf(str[2])
             b1 == s1 * 4 + s2 \div 16
         IN IF Len(str) = 2 THEN <<b1>>
            ELSE LET s3 == SextetOf(str[3])
                     b2 == (s2 % 16) * 16 + s3 \div 4
                 IN IF Len(str) = 3 THEN <<b1, b2>>
                    ELSE <<b1, b2, (s3 % 4) * 64 + SextetOf(str[4])>>
                         \o DecodeString(SubSeq(str, 5, Len(str)))

RECURSIVE Sum(_)
Sum(b) == IF b = <<>> THEN 0 ELSE b[1] + Sum(Tail(b))

\* C25: the API string of a BabyJubJub key is "hez:" and the unpadded
\* base64url form of the 32 compressed bytes with one checksum byte after
\* them, which is the sum of the 32 bytes modulo 256.
C25_BjjToString ==
    cx.op = "bjjToString" =>
      LET str == SubSeq(cx.out, 5, Len(cx.out))
          bytes == DecodeString(str)
      IN /\ SubSeq(cx.out, 1, 4) = <<"h", "e", "z", ":">>
         /\ Len(str) = 44
         /\ \A i \in 1..Len(str) : \E j \in 1..64 : EncodeURL[j] = str[i]
         /\ Len(bytes) = 33
         /\ SubSeq(bytes, 1, 32) = Compress(cx.in)
         /\ bytes[33] = Sum(Compress(cx.in)) % 256

\* the string of a key whose bytes add up to more than a byte holds
C25_Witness ==
    /\ cx.op = "bjjToString"
    /\ cx.in.XSign
    /\ Sum(Compress(cx.in)) > 255
    /\ Len(cx.out) = 48

\* the txs of the list that create an account when run in order from accs
RECURSIVE CreatedBy(_, _)
CreatedBy(accs, txs) ==
    IF txs = <<>> THEN 0
    ELSE (IF HasAccount(accs, Head(txs).FromEthAddr, Head(txs).TokenID)
          THEN 0 ELSE 1)
         + CreatedBy(ProcessL1Tx(accs, Head(txs)), Tail(txs))

\* a call of GetL1L2TxSelection has returned
SelectionReturns == selOut' # selOut \/ selBatch' # selBatch

\* C26: every successful GetL1L2TxSelection advances the current batch of
\* the selector's local accounts DB by exactly 1, also when nothing is
\* selected, and raises CurrentIdx, 255 at first, by the number of accounts
\* the batch creates (L1 user txs that create an account and the coordinator
\* L1 txs inserted); CurrentIdx never decreases.
C26_BatchAndIdx ==
    /\ [](/\ selBatch = 0 => CurrentIdx = 255
          /\ selOut.err = NoErr =>
               CurrentIdx = IdxOf(Len(selOut.snapshot))
                            + CreatedBy(selOut.snapshot, selOut.l1UserTxs)
                            + Len(selOut.l1CoordinatorTxs))
    /\ [][/\ CurrentIdx' >= CurrentIdx
          /\ SelectionReturns =>
               IF selOut'.err = NoErr
               THEN selBatch' = selBatch + 1 /\ selOut'.snapshot = selAccounts
               ELSE selBatch' = selBatch /\ selAccounts' = selAccounts]_vars

\* a selection created the accounts a transfer needs, and the next one, with
\* nothing to select, made the next batch
C26_Witness ==
    /\ selBatch = sdbBatch + 2
    /\ selOut.err = NoErr
    /\ BatchSize(selOut) = 0
    /\ CurrentIdx >= IdxOf(Len(FundedAccounts)) + 2

\* C27: in every selection output the account creation authorizations go
\* with the coordinator L1 txs inserted: as many of them, entry i authorizing
\* tx i; a coordinator L1 tx is inserted only for an owner and token with no
\* account yet, and once; the coordinator's fee accounts go with the
\* coordinator's own authorization, the others with the authorization the
\* pool stores for the user.
C27_AuthsAligned ==
    selOut.err = NoErr =>
      LET txs == selOut.l1CoordinatorTxs
          afterUser == ProcessL1Txs(selOut.snapshot, selOut.l1UserTxs)
      IN /\ Len(selOut.accAuths) = Len(txs)
         /\ CoordUser \notin auths
         /\ \A i \in 1..Len(txs) :
              /\ ~txs[i].UserOrigin
              /\ selOut.accAuths[i] = txs[i].FromEthAddr
              /\ ~HasAccount(afterUser, txs[i].FromEthAddr, txs[i].TokenID)
              /\ \A j \in 1..Len(txs) :
                   (txs[j].FromEthAddr = txs[i].FromEthAddr
                    /\ txs[j].TokenID = txs[i].TokenID) => j = i
              /\ txs[i].FromEthAddr # CoordUser => selOut.accAuths[i] \in auths
              /\ \E k \in 1..Len(selOut.l2Txs) :
                   /\ selOut.l2Txs[k].TokenID = txs[i].TokenID
                   /\ txs[i].FromEthAddr \in {CoordUser, selOut.l2Txs[k].To}

\* a selection created a fee account and the account of a receiver whose
\* authorization the pool stores, and left pending a tx to a receiver with
\* no account and no authorization
C27_Witness ==
    /\ selOut.err = NoErr
    /\ Len(selOut.accAuths) = 2
    /\ selOut.accAuths[1] = CoordUser
    /\ selOut.accAuths[2] \in auths
    /\ \E e \in pool :
         /\ e.State = "pending"
         /\ ~HasAccount(selAccounts, e.Tx.To, e.Tx.TokenID)
         /\ e.Tx.To \notin auths

\* the account with an Idx
AccountAt(accs, idx) == accs[idx - 255]

RECURSIVE Total(_, _)
Total(accs, t) ==
    IF accs = <<>> THEN 0
    ELSE (IF Head(accs).TokenID = t THEN Head(accs).Balance ELSE 0)
         + Total(Tail(accs), t)

\* the amounts of a token that the Exits of the list take out
RECURSIVE Exited(_, _)
Exited(txs, t) ==
    IF txs = <<>> THEN 0
    ELSE (IF IsExit(Head(txs)) /\ Head(txs).TokenID = t THEN Head(txs).Amount ELSE 0)
         + Exited(Tail(txs), t)

\* the state the L2 txs of the last selection were run from
BeforeL2 ==
    ProcessL1Txs(ProcessL1Txs(selOut.snapshot, selOut.l1UserTxs),
                 selOut.l1CoordinatorTxs)

\* C29: fee accounting conserves tokens: every applied L2 transfer or Exit of
\* amount a with fee selector f takes a + fee(a, f) from the sender, gives a
\* to the receiver or to the exit leaf and fee(a, f) to the coordinator's fee
\* account of the token; so the balances of a token and the amounts exited
\* add up to the same before and after the L2 txs of a batch.
C29_FeeConservation ==
    selOut.err = NoErr =>
      LET txs == selOut.l2Txs IN
      /\ selAccounts = ProcessL2Txs(BeforeL2, txs)
      /\ \A i \in 1..Len(txs) :
           LET tx == txs[i]
               before == ProcessL2Txs(BeforeL2, SubSeq(txs, 1, i - 1))
               after == ProcessL2Txs(BeforeL2, SubSeq(txs, 1, i))
               s == AccountPos(before, tx.From, tx.TokenID)
               r == AccountPos(before, tx.To, tx.TokenID)
               c == AccountPos(before, CoordUser, tx.TokenID)
           IN /\ tx.Fee = Fee126(tx.Amount)
              /\ s # 0 /\ c # 0 /\ s # c /\ s # r /\ c # r
              /\ IsExit(tx) <=> r = 0
              /\ Len(after) = Len(before)
              /\ after[s].Balance = before[s].Balance - (tx.Amount + tx.Fee)
              /\ after[s].Nonce = before[s].Nonce + 1
              /\ r # 0 => after[r].Balance = before[r].Balance + tx.Amount
              /\ after[c].Balance = before[c].Balance + tx.Fee
              /\ \A j \in 1..Len(before) :
                   j \notin {s, r, c} => after[j] = before[j]
              /\ Total(after, tx.TokenID) + (IF IsExit(tx) THEN tx.Amount ELSE 0)
                   = Total(before, tx.TokenID)
      /\ \A t \in TokensOf(txs) :
           Total(selAccounts, t) + Exited(txs, t) = Total(BeforeL2, t)

\* an Exit was applied after a transfer of an earlier batch: the coordinator
\* holds the fees of both
C29_Witness ==
    /\ selOut.err = NoErr
    /\ Exited(selOut.l2Txs, 0) = 100
    /\ Total(selAccounts, 0) = Total(BalAccounts, 0) - 100
    /\ selAccounts[AccountPos(selAccounts, CoordUser, 0)].Balance = 15

\* the pool txs a step leaves pending or marks as selected
StaysInPool(e) ==
    \E x \in pool' :
      /\ x.Tx = e.Tx
      /\ \/ x.State = "pending"
         \/ x.State = "forging" /\ e \in Unmarked

\* C30: a pool tx that is not selected for lack of funds stays pending, and
\* a later GetL1L2TxSelection selects it once its sender's balance in state
\* covers it; what another L2 tx of the same batch gives the sender is not
\* counted, so an Exit that needs a transfer of the same pool is selected one
\* batch after the transfer.
C30_SelectedOnceCovered ==
    /\ [](selOut.err = NoErr =>
            LET start == ProcessL1Txs(selOut.snapshot, selOut.l1UserTxs)
                txs == selOut.l2Txs
            IN \A i \in 1..Len(txs) :
                 start[AccountPos(start, txs[i].From, txs[i].TokenID)].Balance
                   - SpentBy(SubSeq(txs, 1, i - 1), txs[i].From, txs[i].TokenID)
                   >= txs[i].Amount + txs[i].Fee)
    /\ [][/\ \A e \in pool : e.State = "pending" => StaysInPool(e)
          /\ (SelectionReturns /\ selOut'.err = NoErr) =>
               \A e \in pool :
                 LET tx == e.Tx
                     pos == AccountPos(selOut'.snapshot, tx.From, tx.TokenID)
                 IN (/\ e.State = "pending"
                     /\ pos # 0
                     /\ tx.Nonce = selOut'.snapshot[pos].Nonce
                     /\ selOut'.snapshot[pos].Balance >= tx.Amount + tx.Fee
                     /\ selOut'.l1UserTxs = <<>>
                     /\ IsExit(tx) \/ HasAccount(selOut'.snapshot, tx.To, tx.TokenID)
                     /\ HasAccount(selOut'.snapshot, CoordUser, tx.TokenID)
                     /\ BatchSize(selOut') < MaxTx)
                    => \E i \in 1..Len(selOut'.l2Txs) : selOut'.l2Txs[i] = tx]_vars

\* the Exit of B, which B could not pay at first, is selected in the batch
\* after the one of the transfer to B
C30_Witness ==
    /\ selOut.err = NoErr
    /\ \E i \in 1..Len(selOut.l2Txs) :
         /\ IsExit(selOut.l2Txs[i])
         /\ selOut.l2Txs[i].Nonce = 0
         /\ BalAccounts[3].Balance < selOut.l2Txs[i].Amount + selOut.l2Txs[i].Fee
    /\ \E e \in pool :
         /\ e.Tx.To = "B"
         /\ e.State = "forging"
         /\ e.BatchNum = selBatch - 1

\* the other parts of a forgeBatch call do not fail: the calls of the chain
\* client and the encoding of the L1 coordinator txs and of the L2 txs
ForgeRestOk ==
    /\ cx.env = "-"
    /\ EncodeL1CoordinatorTxs(cx.in.L1CoordinatorTxs,
                              cx.in.L1CoordinatorTxsAuths, 1).err = NoErr
    /\ EncodeL2TxsData(cx.in.L2TxsData, cx.nLevels, 1).err = NoErr

\* the i-th slot of the fee accounts handed to the contract
SentFeeSlot(i) ==
    SubSeq(cx.out.aux.FeeIdxCoordinator, (i - 1) * (cx.nLevels \div 8) + 1,
           i * (cx.nLevels \div 8))

\* the slots hold the low bytes of the idxs given, in order, and zeros after
FeeSlotsFilled ==
    LET lenBytes == cx.nLevels \div 8
        given == cx.in.FeeIdxCoordinator
    IN /\ Len(cx.out.aux.FeeIdxCoordinator)
            = RollupConstMaxFeeIdxCoordinator * lenBytes
       /\ \A i \in 1..RollupConstMaxFeeIdxCoordinator :
            \A k \in 1..lenBytes :
              SentFeeSlot(i)[k] = IF i <= Len(given)
                                  THEN IdxBytes(given[i]).b[6 - lenBytes + k]
                                  ELSE 0

NoZeroIdx(idxs) == \A i \in 1..Len(idxs) : idxs[i] # SmallIdx(0)

SentL1CoordinatorTx(i) ==
    SubSeq(cx.out.aux.EncodedL1CoordinatorTx,
           (i - 1) * L1CoordinatorTxBytesLen + 1, i * L1CoordinatorTxBytesLen)

ForgeBatchReadBack ==
    cx.op = "RollupForgeBatch" /\ cx.out.err = NoErr /\ cx.back.err = NoErr

\* C32: for coordinator txs encoded as v, r, s, FromBJJ, TokenID from
\* signatures r, s, v, RollupForgeBatchArgs returns in L1CoordinatorTxsAuths
\* the same signatures, r from the encoded bytes 1..32, s from the bytes
\* 33..64 and v from the byte 0, one per decoded coordinator tx, in the
\* same order.
C32_CoordinatorAuths ==
    ForgeBatchReadBack =>
      LET back == cx.back.args IN
      /\ Len(back.L1CoordinatorTxsAuths) = Len(back.L1CoordinatorTxs)
      /\ Len(back.L1CoordinatorTxs) = Len(cx.in.L1CoordinatorTxs)
      /\ \A i \in 1..Len(back.L1CoordinatorTxsAuths) :
           /\ back.L1CoordinatorTxsAuths[i]
                = SubSeq(SentL1CoordinatorTx(i), 2, 33)
                  \o SubSeq(SentL1CoordinatorTx(i), 34, 65)
                  \o <<SentL1CoordinatorTx(i)[1]>>
           /\ back.L1CoordinatorTxsAuths[i] = cx.in.L1CoordinatorTxsAuths[i]

\* C32, the part that holds: one authorization of 65 bytes per decoded
\* coordinator tx, in the order of the txs, which are those given; v is the
\* byte 0, and the first 32 bytes are the encoded bytes 33..64, the next 32
\* the encoded bytes 1..32: the s and the r given, in this order.
C32_AuthPerTx ==
    ForgeBatchReadBack =>
      LET back == cx.back.args IN
      /\ back.L1CoordinatorTxs = cx.in.L1CoordinatorTxs
      /\ Len(back.L1CoordinatorTxsAuths) = Len(back.L1CoordinatorTxs)
      /\ \A i \in 1..Len(back.L1CoordinatorTxsAuths) :
           LET given == cx.in.L1CoordinatorTxsAuths[i] IN
           /\ Len(back.L1CoordinatorTxsAuths[i]) = 65
           /\ back.L1CoordinatorTxsAuths[i]
                = SubSeq(SentL1CoordinatorTx(i), 34, 65)
                  \o SubSeq(SentL1CoordinatorTx(i), 2, 33)
                  \o <<SentL1CoordinatorTx(i)[1]>>
           /\ back.L1CoordinatorTxsAuths[i]
                = SubSeq(given, 33, 64) \o SubSeq(given, 1, 32) \o <<given[65]>>

\* two coordinator txs were read back, the second with r and s the same
\* bytes and so with the signature given
C32_TwoAuths ==
    /\ ForgeBatchReadBack
    /\ Len(cx.back.args.L1CoordinatorTxsAuths) = 2
    /\ cx.back.args.L1CoordinatorTxsAuths[1] # cx.in.L1CoordinatorTxsAuths[1]
    /\ cx.back.args.L1CoordinatorTxsAuths[2] = cx.in.L1CoordinatorTxsAuths[2]

\* the type ToIdx gives, for a ToIdx that gives one
TypeOfToIdx(tx) == IF tx.ToIdx = SmallIdx(1) THEN TxTypeExit ELSE TxTypeTransfer

\* the type and the TxID of the tx can be computed
Computable(tx) ==
    /\ tx.ToIdx = SmallIdx(1) \/ IdxAtLeast(tx.ToIdx, IdxUserThreshold)
    /\ tx.FromIdx.hi < Limb24
    /\ Representable(tx.Amount)

\* C33: NewL2Tx checks the Type and the TxID it is given against the
\* computed ones: for a tx whose Type and TxID can be computed, it returns
\* an error when a Type that is not empty differs from the type ToIdx gives,
\* or a TxID that is not zero differs from the computed TxID; otherwise it
\* returns the tx with Type and TxID set to the computed values and the
\* other fields as given, and NewL2Tx of the tx returned succeeds and returns
\* the same tx.
C33_NewL2TxChecks ==
    (cx.op = "NewL2Tx" /\ Computable(cx.in)) =>
      LET tx == cx.in
          computed == CalculateTxID([tx EXCEPT !.Type = "", !.TxID = ZeroTxID])
      IN /\ computed.err = NoErr
         /\ IF \/ tx.Type # "" /\ tx.Type # TypeOfToIdx(tx)
               \/ tx.TxID # ZeroTxID /\ tx.TxID # computed.id
            THEN cx.out.err # NoErr
            ELSE /\ cx.out.err = NoErr
                 /\ cx.out.tx = [tx EXCEPT !.Type = TypeOfToIdx(tx),
                                           !.TxID = computed.id]
                 /\ cx.again.err = NoErr
                 /\ cx.again.tx = cx.out.tx

\* a tx given with its own type and TxID was returned, and returned again;
\* the same tx was refused with another type or another TxID
C33_Witness ==
    /\ cx.op = "NewL2Tx"
    /\ cx.in.Type = TxTypeTransfer
    /\ cx.in.TxID # ZeroTxID
    /\ cx.out.err = NoErr
    /\ cx.out.tx = cx.in
    /\ cx.again.tx = cx.in
    /\ NewL2Tx([cx.in EXCEPT !.Type = TxTypeExit]).err = ErrTypeMismatch
    /\ NewL2Tx([cx.in EXCEPT !.TxID = OtherTxID]).err = ErrTxIDMismatch

\* ================================================ claims: pool of provers
\* the holders that have a prover
HoldersOf(p) == {h \in Holders : p \in pp.held[h]}

\* the places of the channel that hold a prover
PlacesOf(p) == {i \in 1..Len(pp.pool) : pp.pool[i] = p}

\* a step is a Get that found the context cancelled
GetOfCancelled == pp.done /\ pp'.last.op = "Get" /\ pp' # pp

\* C34 (as stated): a prover returned by Get is not returned by another Get
\* until it has been added back, under any interleaving of Add and Get; the
\* pool never holds more than maxServerProofs provers; a Get whose context
\* is cancelled returns ErrDone without removing a prover from the pool.
C34_ProversPool ==
    /\ [](/\ \A p \in Provers :
               Cardinality(HoldersOf(p)) + Cardinality(PlacesOf(p)) <= 1
          /\ Len(pp.pool) <= MaxServerProofs)
    /\ [][GetOfCancelled => pp'.last.err = ErrDone /\ pp'.pool = pp.pool]_vars

\* C34 (amended): a prover returned by Get is not returned by another Get
\* until it has been added back, under any interleaving of Add and Get; the
\* pool never holds more than maxServerProofs provers; a Get that returns
\* ErrDone has its context cancelled and removes no prover from the pool,
\* and a Get whose context is cancelled returns ErrDone when the pool is
\* empty, and ErrDone or a prover of the pool when it is not.
C34_ProversPoolSelect ==
    /\ [](/\ \A p \in Provers :
               Cardinality(HoldersOf(p)) + Cardinality(PlacesOf(p)) <= 1
          /\ Len(pp.pool) <= MaxServerProofs)
    /\ [][(pp'.last.op = "Get" /\ pp' # pp) =>
            IF pp'.last.err = ErrDone
            THEN pp.done /\ pp'.pool = pp.pool /\ pp'.held = pp.held
            ELSE /\ pp.pool # <<>>
                 /\ pp'.last.prover = pp.pool[1]
                 /\ pp'.pool = SubSeq(pp.pool, 2, Len(pp.pool))
                 /\ HoldersOf(pp.pool[1]) = {}
                 /\ pp'.held = [pp.held EXCEPT ![pp'.last.h] = @ \cup {pp.pool[1]}]]_vars
    /\ [][(GetOfCancelled /\ pp.pool = <<>>) => pp'.last.err = ErrDone]_vars

\* the pool is full, a holder has the prover it got and added back before,
\* and a Get returned ErrDone with provers in the pool
C34_Witness ==
    /\ Len(pp.pool) = MaxServerProofs
    /\ pp.fresh = {}
    /\ \E h \in Holders : pp.held[h] # {}
    /\ pp.last.op = "Get" /\ pp.last.err = ErrDone

\* ---- C35
\* the call of the next forgers that resp holds has returned its list
ForgersListed ==
    /\ resp # NoResp
    /\ resp.api \in {"GetNextForgers", "GetNextForgersInternalAPI"}
    /\ resp.err = NoErr

\* a slot has a bid in the table of the call
HasBid(slot) == \E i \in 1..Len(resp.bids) : resp.bids[i].SlotNum = slot

\* the best bid of a slot: the highest of its bids
BestBid(slot) ==
    LET of == {resp.bids[i] : i \in {k \in 1..Len(resp.bids) : resp.bids[k].SlotNum = slot}}
    IN CHOOSE b \in of : \A o \in of : o.BidValue <= b.BidValue

\* the minimum bid of a slot: that of its place among the six in the last
\* update that counts from the slot or from before it
SlotMinBid(slot) ==
    LET at == {i \in 1..Len(resp.updates) :
                 resp.updates[i].DefaultSlotSetBidSlotNum <= slot}
    IN resp.updates[Max(at)].DefaultSlotSetBid[(slot % 6) + 1]

\* the coordinator registered for a bidder: the last of its rows
Registered(bidder) ==
    LET at == {i \in 1..Len(resp.coordinators) : resp.coordinators[i].Bidder = bidder}
    IN resp.coordinators[Max(at)]

SlotWon(slot) ==
    /\ HasBid(slot)
    /\ resp.api = "GetNextForgersInternalAPI" =>
         BestBid(slot).BidValue >= SlotMinBid(slot)

StatusEnded(t) == obs[t].op = "Status" /\ pc[t] = "done"

\* C36: Status returns without failing the number of the last block saved
\* in the history, the last batch number of the history and whether that
\* block is the current block of the chain: a call that read a last block
\* from the history, no read failing, ends with a nil error
C36_Status ==
    \A t \in Threads : (StatusEnded(t) /\ ret[t] # ErrDB) => ret[t] = NoErr

\* no call of Status returns a status: it ends with the error of
\* GetLastBlock or in the panic of the assignment to the nil status
C36_StatusNeverReturns ==
    \A t \in Threads : StatusEnded(t) => ret[t] \in {ErrDB, Panic}

\* a call on a history that holds blocks has ended in the panic
C36_StatusPanics ==
    \E t \in Threads : StatusEnded(t) /\ ret[t] = Panic /\ hdbBlocks # {}

\* ---- C37
\* a call of Sync by t has returned nil
SyncReturned(t) == obs[t].op = "Sync" /\ pc[t] = "done" /\ ret[t] = NoErr

\* the last block of the history is the head that the call of t has read
SavedHead(t) ==
    /\ hdbBlocks # {}
    /\ GetLastBlock(hdbBlocks).EthBlockNum = sv[t].latestBlockNum

\* an iteration of the loop of Sync after which the loop goes on: the last
\* saved block is the block after the one before
IterationAddsOne(t) ==
    (pc[t] = "s_loop" /\ pc'[t] = "s_loop") =>
      /\ sv'[t].lastSavedBlock.EthBlockNum = sv[t].lastSavedBlock.EthBlockNum + 1
      /\ sv'[t].lastSavedBlock = GetLastBlock(hdbBlocks')
      /\ sv'[t].latestBlockNum = sv[t].latestBlockNum

\* C37: a call of Sync that has read the head H of the chain and in which no
\* call fails returns after finitely many iterations with the last block of
\* the history equal to H: a call that has returned nil has left the block H
\* as the last of the history
C37_SyncReachesHead == \A t \in Threads : SyncReturned(t) => SavedHead(t)

\* on a chain whose head is above blocksToSync: a call of Sync that has read
\* the head returns, every iteration moves the last saved block up by one,
\* and a call that returns nil leaves the head it read as the last block of
\* the history
C37_SyncTerminates ==
    /\ \A t \in Threads : pc[t] \in {"s_cur", "s_loop"} ~> pc[t] = "done"
    /\ [][\A t \in Threads : IterationAddsOne(t)]_vars
    /\ [](\A t \in Threads : SyncReturned(t) => SavedHead(t))

\* Sync has returned nil on an empty history with no block saved
C37_NothingSaved == \E t \in Threads : SyncReturned(t) /\ hdbBlocks = {}

====
